---- MODULE Spec2Model ----
(***************************************************************************)
(* Model of the Format Fixer text pipeline (src/index.js).                 *)
(*                                                                         *)
(* A text is a sequence of one-character strings.  Positions are 1-based;  *)
(* a position p names the character s[p] that is read next, and            *)
(* Len(s) + 1 is the end of the text.                                      *)
(***************************************************************************)
EXTENDS Integers, Sequences, FiniteSets, TLC

(***************************************************************************)
(* Character classes of the JavaScript regular expressions of the source.  *)
(***************************************************************************)
Lower == {"a","b","c","d","e","f","g","h","i","j","k","l","m",
          "n","o","p","q","r","s","t","u","v","w","x","y","z"}
Upper == {"A","B","C","D","E","F","G","H","I","J","K","L","M",
          "N","O","P","Q","R","S","T","U","V","W","X","Y","Z"}
Digit == {"0","1","2","3","4","5","6","7","8","9"}
AlNum == Lower \cup Upper \cup Digit
WordChar == AlNum \cup {"_"}
Space == {" ", "\t", "\n", "\r"}
\* A character that a string of this language cannot hold is written as the
\* string "U+xxxx" of its code point: the backtick, and the characters outside ASCII.
Backtick == "U+0060"

\* String.prototype.toUpperCase / toLowerCase on one character
ToUpperChar(c) ==
    CASE c = "a" -> "A" [] c = "b" -> "B" [] c = "c" -> "C" [] c = "d" -> "D"
      [] c = "e" -> "E" [] c = "f" -> "F" [] c = "g" -> "G" [] c = "h" -> "H"
      [] c = "i" -> "I" [] c = "j" -> "J" [] c = "k" -> "K" [] c = "l" -> "L"
      [] c = "m" -> "M" [] c = "n" -> "N" [] c = "o" -> "O" [] c = "p" -> "P"
      [] c = "q" -> "Q" [] c = "r" -> "R" [] c = "s" -> "S" [] c = "t" -> "T"
      [] c = "u" -> "U" [] c = "v" -> "V" [] c = "w" -> "W" [] c = "x" -> "X"
      [] c = "y" -> "Y" [] c = "z" -> "Z" [] OTHER -> c

ToLowerChar(c) ==
    CASE c = "A" -> "a" [] c = "B" -> "b" [] c = "C" -> "c" [] c = "D" -> "d"
      [] c = "E" -> "e" [] c = "F" -> "f" [] c = "G" -> "g" [] c = "H" -> "h"
      [] c = "I" -> "i" [] c = "J" -> "j" [] c = "K" -> "k" [] c = "L" -> "l"
      [] c = "M" -> "m" [] c = "N" -> "n" [] c = "O" -> "o" [] c = "P" -> "p"
      [] c = "Q" -> "q" [] c = "R" -> "r" [] c = "S" -> "s" [] c = "T" -> "t"
      [] c = "U" -> "u" [] c = "V" -> "v" [] c = "W" -> "w" [] c = "X" -> "x"
      [] c = "Y" -> "y" [] c = "Z" -> "z" [] OTHER -> c

ToUpperCase(s) == [i \in 1..Len(s) |-> ToUpperChar(s[i])]

(***************************************************************************)
(* String helpers of the JavaScript runtime.                               *)
(***************************************************************************)
\* s.substring(a - 1, b): the characters at positions a .. b
Sub(s, a, b) == IF a > b THEN <<>> ELSE SubSeq(s, a, b)

\* s.slice(p - 1): the text from position p on
From(s, p) == Sub(s, p, Len(s))

\* s.startsWith(t) at position p
LooksAt(s, p, t) ==
    /\ p >= 1
    /\ p + Len(t) - 1 <= Len(s)
    /\ \A i \in 1..Len(t) : s[p + i - 1] = t[i]

StartsWith(s, t) == LooksAt(s, 1, t)
EndsWith(s, t) == Len(t) <= Len(s) /\ LooksAt(s, Len(s) - Len(t) + 1, t)

\* s.indexOf(t, p - 1) as a position, 0 when there is none
IndexOf(s, t, p) ==
    LET none == Len(s) + 2
        q == CHOOSE x \in p..none : x = none \/ LooksAt(s, x, t)
    IN IF q = none THEN 0 ELSE q

Includes(s, t) == IndexOf(s, t, 1) # 0

\* s.trim()
RECURSIVE TrimStart(_)
TrimStart(s) ==
    IF Len(s) > 0 /\ s[1] \in Space THEN TrimStart(Tail(s)) ELSE s

RECURSIVE TrimEnd(_)
TrimEnd(s) ==
    IF Len(s) > 0 /\ s[Len(s)] \in Space THEN TrimEnd(Sub(s, 1, Len(s) - 1)) ELSE s

Trim(s) == TrimEnd(TrimStart(s))

\* the concatenation of a sequence of texts, array.join(sep)
RECURSIVE Join(_, _)
Join(parts, sep) ==
    IF Len(parts) = 0 THEN <<>>
    ELSE IF Len(parts) = 1 THEN parts[1]
    ELSE parts[1] \o sep \o Join(Tail(parts), sep)

\* the decimal digits of a counter value, as `${index}` prints them
RECURSIVE Decimal(_)
Decimal(n) ==
    LET d == CASE n % 10 = 0 -> "0" [] n % 10 = 1 -> "1" [] n % 10 = 2 -> "2"
               [] n % 10 = 3 -> "3" [] n % 10 = 4 -> "4" [] n % 10 = 5 -> "5"
               [] n % 10 = 6 -> "6" [] n % 10 = 7 -> "7" [] n % 10 = 8 -> "8"
               [] OTHER -> "9"
    IN IF n < 10 THEN <<d>> ELSE Decimal(n \div 10) \o <<d>>

(***************************************************************************)
(* A backtracking matcher for the regular expressions of the source, with  *)
(* the priorities of the JavaScript engine: alternatives left to right,    *)
(* greedy quantifiers longest first, lazy quantifiers shortest first.      *)
(* A pattern is a sequence of nodes.                                       *)
(***************************************************************************)
\* one character of the set cs, [...]
In(cs) == [t |-> "set", s |-> cs, neg |-> FALSE, min |-> 1, max |-> 1, lazy |-> FALSE]
\* one character outside the set cs, [^...]
NotIn(cs) == [t |-> "set", s |-> cs, neg |-> TRUE, min |-> 1, max |-> 1, lazy |-> FALSE]
\* a literal character
Ch(c) == In({c})
\* a literal character under the i flag
ChI(c) == In({ToLowerChar(c), ToUpperChar(c)})
\* . under the s flag, and . without it
DotAll == NotIn({})
Dot == NotIn({"\n", "\r"})
\* quantifiers on a one-character node: x*, x+, x?, x{lo,hi}, and the lazy x*?, x+?
\* (max = -1 is no upper limit)
Rep(x, lo, hi) == [x EXCEPT !.min = lo, !.max = hi]
Star(x) == Rep(x, 0, -1)
Plus(x) == Rep(x, 1, -1)
Opt(x) == Rep(x, 0, 1)
Lazy(x) == [x EXCEPT !.lazy = TRUE]
\* a|b|... : each alternative is a pattern
Alt(alts) == [t |-> "alt", a |-> alts]
\* (?:a|b|...)?
OptAlt(alts) == Alt(Append(alts, <<>>))
\* the start and the end of capture group n
Open(n) == [t |-> "open", n |-> n]
Close(n) == [t |-> "close", n |-> n]
\* (...) as capture group n around the pattern body
Group(n, body) == <<Open(n)>> \o body \o <<Close(n)>>
\* (?!...)
NotAhead(body) == [t |-> "nla", b |-> body]
\* (?<!x) for a one-character node x
NotBehind(x) == [t |-> "nlb", s |-> x.s, neg |-> x.neg]
\* \b, ^ under the m flag, ^ and $ without it
WordBoundary == [t |-> "wb"]
LineStart == [t |-> "bol"]
TextEnd == [t |-> "eos"]
\* a literal text, and a literal text under the i flag
Lit(s) == <<[t |-> "lit", s |-> s, i |-> FALSE]>>
LitI(s) == <<[t |-> "lit", s |-> s, i |-> TRUE]>>

NoMatch == [ok |-> FALSE, b |-> 0, e |-> 0, caps |-> <<>>]
\* capture groups that did not take part in the match
NoCaps == [n \in 1..3 |-> <<0, 0>>]

InClass(c, node) == (c \in node.s) # node.neg

\* the number of characters from position p on that are in the class of node,
\* up to the node's max
RunLength(node, s, p) ==
    CHOOSE n \in 0..(Len(s) - p + 1) :
        \/ n = node.max
        \/ p + n > Len(s)
        \/ ~InClass(s[p + n], node)

\* the literal text of a node is at position p
LitAt(node, s, p) ==
    /\ p + Len(node.s) - 1 <= Len(s)
    /\ \A i \in 1..Len(node.s) :
          IF node.i THEN ToLowerChar(s[p + i - 1]) = ToLowerChar(node.s[i])
          ELSE s[p + i - 1] = node.s[i]

RECURSIVE Match(_, _, _, _)

\* Match(k, s, p, caps): the pattern k matched at position p of s.
\* A quantifier tries its counts in the order of its priority (greedy: longest
\* first, lazy: shortest first) and an alternation its alternatives from left to
\* right; the first one with which the rest of the pattern matches is taken.
Match(k, s, p, caps) ==
    IF Len(k) = 0 THEN [ok |-> TRUE, b |-> 0, e |-> p, caps |-> caps]
    ELSE
      LET h == Head(k)
          rest == Tail(k)
      IN CASE h.t = "set" ->
                IF h.min = 1 /\ h.max = 1
                THEN IF p <= Len(s) /\ InClass(s[p], h)
                     THEN Match(rest, s, p + 1, caps)
                     ELSE NoMatch
                ELSE LET n == RunLength(h, s, p)
                         \* the j-th count tried, j = 0, 1, ...
                         count(j) == IF h.lazy THEN h.min + j ELSE n - j
                         none == n - h.min + 1
                         j == CHOOSE x \in 0..none :
                                  x = none \/ Match(rest, s, p + count(x), caps).ok
                     IN IF n < h.min \/ j = none THEN NoMatch
                        ELSE Match(rest, s, p + count(j), caps)
           [] h.t = "lit" ->
                IF LitAt(h, s, p) THEN Match(rest, s, p + Len(h.s), caps) ELSE NoMatch
           [] h.t = "alt" ->
                LET none == Len(h.a) + 1
                    j == CHOOSE x \in 1..none :
                             x = none \/ Match(h.a[x] \o rest, s, p, caps).ok
                IN IF j = none THEN NoMatch ELSE Match(h.a[j] \o rest, s, p, caps)
           [] h.t = "open" ->
                Match(rest, s, p, [caps EXCEPT ![h.n] = <<p, 0>>])
           [] h.t = "close" ->
                Match(rest, s, p, [caps EXCEPT ![h.n] = <<caps[h.n][1], p>>])
           [] h.t = "nla" ->
                IF Match(h.b, s, p, caps).ok THEN NoMatch
                ELSE Match(rest, s, p, caps)
           [] h.t = "nlb" ->
                IF p > 1 /\ InClass(s[p - 1], h) THEN NoMatch
                ELSE Match(rest, s, p, caps)
           [] h.t = "wb" ->
                LET before == p > 1 /\ s[p - 1] \in WordChar
                    after == p <= Len(s) /\ s[p] \in WordChar
                IN IF before # after THEN Match(rest, s, p, caps) ELSE NoMatch
           [] h.t = "bol" ->
                IF p = 1 \/ s[p - 1] \in {"\n", "\r"} THEN Match(rest, s, p, caps) ELSE NoMatch
           [] h.t = "eos" ->
                IF p = Len(s) + 1 THEN Match(rest, s, p, caps) ELSE NoMatch

\* regex.exec(s) with lastIndex = p - 1: the first match at or after position p.
\* A match is [ok, b, e, caps]: the matched text is s[b .. e - 1], and
\* caps[n] = <<first, end>> bounds group n in the same way.
Exec(re, s, p) ==
    LET none == Len(s) + 2
        at(b) == IF b = none THEN NoMatch
                 ELSE [Match(re, s, b, NoCaps) EXCEPT !.b = b]
    IN at(CHOOSE x \in p..none : x = none \/ Match(re, s, x, NoCaps).ok)

\* regex.test(s)
Test(re, s) == Exec(re, s, 1).ok

\* the successive matches of a regular expression with the g flag
RECURSIVE MatchAll(_, _, _)
MatchAll(re, s, p) ==
    LET from(r) == IF ~r.ok THEN <<>>
                   ELSE <<r>> \o MatchAll(re, s, IF r.e > r.b THEN r.e ELSE r.e + 1)
    IN from(Exec(re, s, p))

\* the matched text, and the text of capture group n ("" when it took no part)
Matched(s, m) == Sub(s, m.b, m.e - 1)
Captured(s, m, n) == Sub(s, m.caps[n][1], m.caps[n][2] - 1)

\* s with the matches ms (in order, not overlapping) replaced by reps[i]
RECURSIVE Splice(_, _, _, _, _)
Splice(s, ms, reps, i, p) ==
    IF i > Len(ms) THEN From(s, p)
    ELSE Sub(s, p, ms[i].b - 1) \o reps[i] \o Splice(s, ms, reps, i + 1, ms[i].e)

\* A replacement string as String.prototype.replace reads it:
\* $$ is a dollar, $& the match, $ and a backtick the text before it, $' the text
\* after it.
\* (The patterns it is used with have no capture groups, so $1.. stay as written.)
RECURSIVE ExpandReplacement(_, _, _, _)
ExpandReplacement(repl, i, s, m) ==
    IF i > Len(repl) THEN <<>>
    ELSE IF repl[i] = "$" /\ i < Len(repl) /\ repl[i + 1] \in {"$", "&", Backtick, "'"}
    THEN (CASE repl[i + 1] = "$" -> <<"$">>
            [] repl[i + 1] = "&" -> Matched(s, m)
            [] repl[i + 1] = Backtick -> Sub(s, 1, m.b - 1)
            [] repl[i + 1] = "'" -> From(s, m.e))
         \o ExpandReplacement(repl, i + 2, s, m)
    ELSE <<repl[i]>> \o ExpandReplacement(repl, i + 1, s, m)

\* s.replace(re, repl) for a regular expression with the g flag and a string repl
ReplaceAllStr(s, re, repl) ==
    LET replaced(ms) ==
            Splice(s, ms, [i \in 1..Len(ms) |-> ExpandReplacement(repl, 1, s, ms[i])], 1, 1)
    IN replaced(MatchAll(re, s, 1))

\* s.replace(re, repl) for a regular expression without the g flag
ReplaceFirstStr(s, re, repl) ==
    LET replaced(m) ==
            IF m.ok THEN Sub(s, 1, m.b - 1) \o ExpandReplacement(repl, 1, s, m) \o From(s, m.e)
            ELSE s
    IN replaced(Exec(re, s, 1))

(***************************************************************************)
(* uncensorText                                                            *)
(***************************************************************************)
uncensorRules == <<
    \* /p_+nis|p_+is/gi
    [pattern |-> <<Alt(<<LitI(<<"p">>) \o <<Plus(ChI("_"))>> \o LitI(<<"n","i","s">>), LitI(<<"p">>) \o <<Plus(ChI("_"))>> \o LitI(<<"i","s">>)>>)>>,
     word |-> <<"p","e","n","i","s">>, fn |-> ""],
    \* /v_+gina|v_+ina/gi
    [pattern |-> <<Alt(<<LitI(<<"v">>) \o <<Plus(ChI("_"))>> \o LitI(<<"g","i","n","a">>), LitI(<<"v">>) \o <<Plus(ChI("_"))>> \o LitI(<<"i","n","a">>)>>)>>,
     word |-> <<"v","a","g","i","n","a">>, fn |-> ""],
    \* /p_+s+y|p_+y/gi
    [pattern |-> <<Alt(<<LitI(<<"p">>) \o <<Plus(ChI("_"))>> \o <<Plus(ChI("s"))>> \o LitI(<<"y">>), LitI(<<"p">>) \o <<Plus(ChI("_"))>> \o LitI(<<"y">>)>>)>>,
     word |-> <<"p","u","s","s","y">>, fn |-> ""],
    \* /f_+c*k/gi
    [pattern |-> LitI(<<"f">>) \o <<Plus(ChI("_"))>> \o <<Star(ChI("c"))>> \o LitI(<<"k">>),
     word |-> <<"f","u","c","k">>, fn |-> ""],
    \* /c_+n*t/gi
    [pattern |-> LitI(<<"c">>) \o <<Plus(ChI("_"))>> \o <<Star(ChI("n"))>> \o LitI(<<"t">>),
     word |-> <<"c","u","n","t">>, fn |-> ""],
    \* /a_+s*hole/gi
    [pattern |-> LitI(<<"a">>) \o <<Plus(ChI("_"))>> \o <<Star(ChI("s"))>> \o LitI(<<"h","o","l","e">>),
     word |-> <<"a","s","s","h","o","l","e">>, fn |-> ""],
    \* /c_+c*k/gi
    [pattern |-> LitI(<<"c">>) \o <<Plus(ChI("_"))>> \o <<Star(ChI("c"))>> \o LitI(<<"k">>),
     word |-> <<"c","o","c","k">>, fn |-> ""],
    \* /d_+c*k/gi
    [pattern |-> LitI(<<"d">>) \o <<Plus(ChI("_"))>> \o <<Star(ChI("c"))>> \o LitI(<<"k">>),
     word |-> <<"d","i","c","k">>, fn |-> ""],
    \* /s_+x/gi
    [pattern |-> LitI(<<"s">>) \o <<Plus(ChI("_"))>> \o LitI(<<"x">>),
     word |-> <<"s","e","x">>, fn |-> ""],
    \* /c_+me/gi
    [pattern |-> LitI(<<"c">>) \o <<Plus(ChI("_"))>> \o LitI(<<"m","e">>),
     word |-> <<"c","a","m","e">>, fn |-> ""],
    \* /c_+m/gi
    [pattern |-> LitI(<<"c">>) \o <<Plus(ChI("_"))>> \o LitI(<<"m">>),
     word |-> <<"c","u","m">>, fn |-> ""],
    \* /n_+p+le|n_+le/gi
    [pattern |-> <<Alt(<<LitI(<<"n">>) \o <<Plus(ChI("_"))>> \o <<Plus(ChI("p"))>> \o LitI(<<"l","e">>), LitI(<<"n">>) \o <<Plus(ChI("_"))>> \o LitI(<<"l","e">>)>>)>>,
     word |-> <<"n","i","p","p","l","e">>, fn |-> ""],
    \* /p_+s+/gi
    [pattern |-> LitI(<<"p">>) \o <<Plus(ChI("_"))>> \o <<Plus(ChI("s"))>>,
     word |-> <<"p","i","s","s">>, fn |-> ""],
    \* /ur_+ne/gi
    [pattern |-> LitI(<<"u","r">>) \o <<Plus(ChI("_"))>> \o LitI(<<"n","e">>),
     word |-> <<"u","r","i","n","e">>, fn |-> ""],
    \* /an_+s/gi
    [pattern |-> LitI(<<"a","n">>) \o <<Plus(ChI("_"))>> \o LitI(<<"s">>),
     word |-> <<"a","n","u","s">>, fn |-> ""],
    \* /an_+l/gi
    [pattern |-> LitI(<<"a","n">>) \o <<Plus(ChI("_"))>> \o LitI(<<"l">>),
     word |-> <<"a","n","a","l">>, fn |-> ""],
    \* /r_+c*tum/gi
    [pattern |-> LitI(<<"r">>) \o <<Plus(ChI("_"))>> \o <<Star(ChI("c"))>> \o LitI(<<"t","u","m">>),
     word |-> <<"r","e","c","t","u","m">>, fn |-> ""],
    \* /f_+g/gi
    [pattern |-> LitI(<<"f">>) \o <<Plus(ChI("_"))>> \o LitI(<<"g">>),
     word |-> <<"f","a","g">>, fn |-> ""],
    \* /t_+t(?:s|ies|y)?/gi
    [pattern |-> LitI(<<"t">>) \o <<Plus(ChI("_"))>> \o LitI(<<"t">>) \o <<OptAlt(<<LitI(<<"s">>), LitI(<<"i","e","s">>), LitI(<<"y">>)>>)>>,
     word |-> <<>>, fn |-> "TitWord"],
    \* /n_+k(?:ed|dity)|n_+de/gi
    [pattern |-> <<Alt(<<LitI(<<"n">>) \o <<Plus(ChI("_"))>> \o LitI(<<"k">>) \o <<Alt(<<LitI(<<"e","d">>), LitI(<<"d","i","t","y">>)>>)>>, LitI(<<"n">>) \o <<Plus(ChI("_"))>> \o LitI(<<"d","e">>)>>)>>,
     word |-> <<>>, fn |-> "NakedWord"],
    \* /t_+(?:s)?icle/gi
    [pattern |-> LitI(<<"t">>) \o <<Plus(ChI("_"))>> \o <<OptAlt(<<LitI(<<"s">>)>>)>> \o LitI(<<"i","c","l","e">>),
     word |-> <<"t","e","s","t","i","c","l","e">>, fn |-> ""],
    \* /t_+(?:s)?cle/gi
    [pattern |-> LitI(<<"t">>) \o <<Plus(ChI("_"))>> \o <<OptAlt(<<LitI(<<"s">>)>>)>> \o LitI(<<"c","l","e">>),
     word |-> <<"t","e","s","t","i","c","l","e">>, fn |-> ""],
    \* /t_+(?:s)?es/gi
    [pattern |-> LitI(<<"t">>) \o <<Plus(ChI("_"))>> \o <<OptAlt(<<LitI(<<"s">>)>>)>> \o LitI(<<"e","s">>),
     word |-> <<"t","e","s","t","e","s">>, fn |-> ""],
    \* /p_+(?:r)?n/gi
    [pattern |-> LitI(<<"p">>) \o <<Plus(ChI("_"))>> \o <<OptAlt(<<LitI(<<"r">>)>>)>> \o LitI(<<"n">>),
     word |-> <<"p","o","r","n">>, fn |-> ""],
    \* /sh_+t/gi
    [pattern |-> LitI(<<"s","h">>) \o <<Plus(ChI("_"))>> \o LitI(<<"t">>),
     word |-> <<"s","h","i","t">>, fn |-> ""],
    \* /sl_+t/gi
    [pattern |-> LitI(<<"s","l">>) \o <<Plus(ChI("_"))>> \o LitI(<<"t">>),
     word |-> <<"s","l","u","t">>, fn |-> ""],
    \* /b_+t?ch/gi
    [pattern |-> LitI(<<"b">>) \o <<Plus(ChI("_"))>> \o <<Opt(ChI("t"))>> \o LitI(<<"c","h">>),
     word |-> <<"b","i","t","c","h">>, fn |-> ""],
    \* /b_+n?er/gi
    [pattern |-> LitI(<<"b">>) \o <<Plus(ChI("_"))>> \o <<Opt(ChI("n"))>> \o LitI(<<"e","r">>),
     word |-> <<"b","o","n","e","r">>, fn |-> ""],
    \* /p_+b(?:is|ic|es)/gi
    [pattern |-> LitI(<<"p">>) \o <<Plus(ChI("_"))>> \o LitI(<<"b">>) \o <<Alt(<<LitI(<<"i","s">>), LitI(<<"i","c">>), LitI(<<"e","s">>)>>)>>,
     word |-> <<>>, fn |-> "PubisWord"],
    \* /s_+d/gi
    [pattern |-> LitI(<<"s">>) \o <<Plus(ChI("_"))>> \o LitI(<<"d">>),
     word |-> <<"s","e","e","d">>, fn |-> ""],
    \* /s_+men/gi
    [pattern |-> LitI(<<"s">>) \o <<Plus(ChI("_"))>> \o LitI(<<"m","e","n">>),
     word |-> <<"s","e","m","e","n">>, fn |-> ""],
    \* /er_+tic/gi
    [pattern |-> LitI(<<"e","r">>) \o <<Plus(ChI("_"))>> \o LitI(<<"t","i","c">>),
     word |-> <<"e","r","o","t","i","c">>, fn |-> ""],
    \* /j_+rk(?:ing|ed)/gi
    [pattern |-> LitI(<<"j">>) \o <<Plus(ChI("_"))>> \o LitI(<<"r","k">>) \o <<Alt(<<LitI(<<"i","n","g">>), LitI(<<"e","d">>)>>)>>,
     word |-> <<>>, fn |-> "JerkWord"],
    \* /h_+rny/gi
    [pattern |-> LitI(<<"h">>) \o <<Plus(ChI("_"))>> \o LitI(<<"r","n","y">>),
     word |-> <<"h","o","r","n","y">>, fn |-> ""],
    \* /b_+o*b/gi
    [pattern |-> LitI(<<"b">>) \o <<Plus(ChI("_"))>> \o <<Star(ChI("o"))>> \o LitI(<<"b">>),
     word |-> <<"b","o","o","b">>, fn |-> ""],
    \* /a_+s*s/gi
    [pattern |-> LitI(<<"a">>) \o <<Plus(ChI("_"))>> \o <<Star(ChI("s"))>> \o LitI(<<"s">>),
     word |-> <<"a","s","s">>, fn |-> ""],
    \* /b_+ll/gi
    [pattern |-> LitI(<<"b">>) \o <<Plus(ChI("_"))>> \o LitI(<<"l","l">>),
     word |-> <<"b","a","l","l">>, fn |-> ""],
    \* /wh_+ore/gi
    [pattern |-> LitI(<<"w","h">>) \o <<Plus(ChI("_"))>> \o LitI(<<"o","r","e">>),
     word |-> <<"w","h","o","r","e">>, fn |-> ""],
    \* /w_+ore/gi
    [pattern |-> LitI(<<"w">>) \o <<Plus(ChI("_"))>> \o LitI(<<"o","r","e">>),
     word |-> <<"w","h","o","r","e">>, fn |-> ""],
    \* /h_+le/gi
    [pattern |-> LitI(<<"h">>) \o <<Plus(ChI("_"))>> \o LitI(<<"l","e">>),
     word |-> <<"h","o","l","e">>, fn |-> ""]
>>

\* the word functions of the rules whose word depends on the match
TitWord(match) ==
    IF match[Len(match)] = "s" THEN <<"t","i","t","s">>
    ELSE IF EndsWith(match, <<"i","e","s">>) THEN <<"t","i","t","t","i","e","s">>
    ELSE IF match[Len(match)] = "y" THEN <<"t","i","t","t","y">>
    ELSE <<"t","i","t">>

NakedWord(match) ==
    IF Includes(match, <<"k">>)
    THEN IF Includes(match, <<"d","i","t","y">>) THEN <<"n","u","d","i","t","y">>
         ELSE <<"n","a","k","e","d">>
    ELSE <<"n","u","d","e">>

PubisWord(match) ==
    IF EndsWith(match, <<"i","s">>) THEN <<"p","u","b","i","s">>
    ELSE IF EndsWith(match, <<"i","c">>) THEN <<"p","u","b","i","c">>
    ELSE <<"p","u","b","e","s">>

JerkWord(match) ==
    IF EndsWith(match, <<"i","n","g">>) THEN <<"j","e","r","k","i","n","g">>
    ELSE <<"j","e","r","k","e","d">>

\* the replacement callback of uncensorText for one rule
uncensorWord(rule, match) ==
    LET originalWord ==
            CASE rule.fn = "TitWord" -> TitWord(match)
              [] rule.fn = "NakedWord" -> NakedWord(match)
              [] rule.fn = "PubisWord" -> PubisWord(match)
              [] rule.fn = "JerkWord" -> JerkWord(match)
              [] OTHER -> rule.word
    IN IF match = ToUpperCase(match) THEN ToUpperCase(originalWord)
       ELSE IF match[1] = ToUpperChar(match[1])
       THEN <<ToUpperChar(originalWord[1])>> \o Tail(originalWord)
       ELSE originalWord

applyRule(s, rule) ==
    LET replaced(ms) ==
            IF Len(ms) = 0 THEN s
            ELSE Splice(s, ms,
                        [i \in 1..Len(ms) |-> uncensorWord(rule, Matched(s, ms[i]))], 1, 1)
    IN replaced(MatchAll(rule.pattern, s, 1))

RECURSIVE applyRules(_, _)
applyRules(s, i) ==
    IF i > Len(uncensorRules) THEN s
    ELSE LET continue(result) == IF Len(result) = 0 THEN result ELSE applyRules(result, i + 1)
         IN continue(applyRule(s, uncensorRules[i]))

uncensorText(text) == applyRules(text, 1)

(***************************************************************************)
(* extractProtectedBlocks / restoreProtectedBlocks                         *)
(***************************************************************************)
protectedBlockPlaceholderPrefix ==
    <<"_","_","P","R","O","T","E","C","T","E","D","_","B","L","O","C","K","_",
      "P","L","A","C","E","H","O","L","D","E","R","_">>
protectedBlockPlaceholderSuffix == <<"_","_">>

generatePlaceholder(index) ==
    protectedBlockPlaceholderPrefix \o Decimal(index) \o protectedBlockPlaceholderSuffix

ThinkOpen == <<"<","t","h","i","n","k",">">>
ThinkClose == <<"<","/","t","h","i","n","k",">">>
MessageTag == <<" ","M","e","s","s","a","g","e"," ","#">>

\* /<think>(.*?)<\/think>/gs
closedThinkRegex == Lit(ThinkOpen) \o Group(1, <<Lazy(Star(DotAll))>>) \o Lit(ThinkClose)
\* /<think>(.*)$/s
unclosedThinkRegex == Lit(ThinkOpen) \o Group(1, <<Star(DotAll)>>) \o <<TextEnd>>
\* /^(.*? Message #\d+: )/gm
messageNumRegex ==
    <<LineStart>> \o Group(1, <<Lazy(Star(Dot))>> \o Lit(MessageTag)
                              \o <<Plus(In(Digit)), Ch(":"), Ch(" ")>>)
\* /\[(.*?)\]/gs
squareBracketRegex == <<Ch("[")>> \o Group(1, <<Lazy(Star(DotAll))>>) \o <<Ch("]")>>
\* /\[(.*)$/s
unclosedSquareBracketRegex == <<Ch("[")>> \o Group(1, <<Star(DotAll)>>) \o <<TextEnd>>

\* One extraction step with the g flag: every match becomes a fresh placeholder
\* and the stored text (the match, or its group 1) is appended to the map.
\* st = [text, protectedBlocks, index]; the map is the sequence of its entries
\* in insertion order.
extractAll(st, re, group) ==
    LET replaced(ms) ==
            [text |-> Splice(st.text, ms,
                             [i \in 1..Len(ms) |-> generatePlaceholder(st.index + i - 1)], 1, 1),
             protectedBlocks |-> st.protectedBlocks \o
                 [i \in 1..Len(ms) |->
                     [placeholder |-> generatePlaceholder(st.index + i - 1),
                      content |-> IF group = 0 THEN Matched(st.text, ms[i])
                                  ELSE Captured(st.text, ms[i], group)]],
             index |-> st.index + Len(ms)]
    IN replaced(MatchAll(re, st.text, 1))

\* One extraction step to the end of the text: match, then replace with the placeholder
extractToEnd(st, re) ==
    LET found(m) ==
            IF ~m.ok THEN st
            ELSE [text |-> ReplaceFirstStr(st.text, re, generatePlaceholder(st.index)),
                  protectedBlocks |-> Append(st.protectedBlocks,
                      [placeholder |-> generatePlaceholder(st.index),
                       content |-> Matched(st.text, m)]),
                  index |-> st.index + 1]
    IN found(Exec(re, st.text, 1))

extractProtectedBlocks(text) ==
    LET extracted(st) == [text |-> st.text, protectedBlocks |-> st.protectedBlocks]
    IN extracted(
         extractToEnd(
           extractAll(
             extractAll(
               extractToEnd(
                 extractAll([text |-> text, protectedBlocks |-> <<>>, index |-> 0],
                            closedThinkRegex, 0),
                 unclosedThinkRegex),
               messageNumRegex, 1),
             squareBracketRegex, 0),
           unclosedSquareBracketRegex))

\* the loop of restoreProtectedBlocks and of restoreHeightMeasurements, from entry i on:
\* the entries of the map in insertion order, each replaced everywhere
RECURSIVE restoreFrom(_, _, _)
restoreFrom(result, blocks, i) ==
    IF i > Len(blocks) THEN result
    ELSE restoreFrom(ReplaceAllStr(result, Lit(blocks[i].placeholder), blocks[i].content),
                     blocks, i + 1)

restoreProtectedBlocks(text, protectedBlocks) == restoreFrom(text, protectedBlocks, 1)

(***************************************************************************)
(* normalizeSmartCharacters                                                *)
(***************************************************************************)
smartCharacterSteps == <<
    [from |-> {"U+00AB","U+00BB","U+201C","U+201D","U+02BA","U+02EE","U+201F",
               "U+275D","U+275E","U+301D","U+301E","U+FF02"}, to |-> <<"\"">>],
    [from |-> {"U+2018","U+2019","U+02BB","U+02C8","U+02BC","U+02BD","U+02B9",
               "U+201B","U+FF07","U+02CA","U+275B","U+275C","U+0313","U+0314"}, to |-> <<"'">>],
    [from |-> {"U+2010","U+2043","U+23BC","U+23BD","U+FE63","U+FF0D"}, to |-> <<"-">>],
    [from |-> {"U+2013"}, to |-> <<"-">>],
    [from |-> {"U+2015"}, to |-> <<"U+2014">>],
    [from |-> {"U+2026"}, to |-> <<".", ".", ".">>],
    [from |-> {"U+00A0","U+2000","U+2001","U+2002","U+2003","U+2004","U+2005","U+2006",
               "U+2007","U+2008","U+2009","U+200A","U+202F","U+205F","U+3000","U+FEFF"},
     to |-> <<" ">>],
    [from |-> {"U+2022","U+2043","U+2219","U+25D8","U+25E6","U+2619","U+2765","U+2767"},
     to |-> <<"*">>],
    [from |-> {"U+2053"}, to |-> <<"~">>]
>>

RECURSIVE replaceChars(_, _)
replaceChars(s, step) ==
    IF Len(s) = 0 THEN <<>>
    ELSE (IF s[1] \in step.from THEN step.to ELSE <<s[1]>>) \o replaceChars(Tail(s), step)

RECURSIVE normalizeFrom(_, _)
normalizeFrom(s, i) ==
    IF i > Len(smartCharacterSteps) THEN s
    ELSE normalizeFrom(replaceChars(s, smartCharacterSteps[i]), i + 1)

normalizeSmartCharacters(text) == normalizeFrom(text, 1)

(***************************************************************************)
(* protectHeightMeasurements / restoreHeightMeasurements                   *)
(***************************************************************************)
heightPlaceholderPrefix ==
    <<"_","_","H","E","I","G","H","T","_","M","E","A","S","U","R","E","M","E","N","T","_">>

generateHeightPlaceholder(index) == heightPlaceholderPrefix \o Decimal(index) \o <<"_","_">>

\* /\d+'\d{1,2}"/g
heightRegex == <<Plus(In(Digit)), Ch("'"), Rep(In(Digit), 1, 2), Ch("\"")>>

\* a protection that finds no measurement
protectHeightMeasurementsNone(text) == [text |-> text, heightMeasurements |-> <<>>]

protectHeightMeasurements(text) ==
    LET replaced(ms) ==
            [text |-> Splice(text, ms,
                             [i \in 1..Len(ms) |-> generateHeightPlaceholder(i - 1)], 1, 1),
             heightMeasurements |->
                 [i \in 1..Len(ms) |-> [placeholder |-> generateHeightPlaceholder(i - 1),
                                        content |-> Matched(text, ms[i])]]]
    IN replaced(MatchAll(heightRegex, text, 1))

restoreHeightMeasurements(text, heightMeasurements) == restoreFrom(text, heightMeasurements, 1)


(***************************************************************************)
(* Stages 1 to 4.3 of processText                                          *)
(***************************************************************************)
\* s.replace(re, pre + '$n' + post) for a regular expression with the g flag
ReplaceAllGroup(s, re, pre, n, post) ==
    LET replaced(ms) ==
            Splice(s, ms, [i \in 1..Len(ms) |-> pre \o Captured(s, ms[i], n) \o post], 1, 1)
    IN replaced(MatchAll(re, s, 1))

\* ([""][^""]*[""]) as group 1
QuotedSpan == Group(1, <<Ch("\""), Star(NotIn({"\""})), Ch("\"")>>)

\* a quote stage that leaves the asterisks around quotes in place
processQuotesSkipped(text) == text

\* Stage 1
processQuotes(text) ==
    \* /\*([""][^""]*[""])\*/g, then /\*([""][^""]*[""]) *(?!\*)/g,
    \* then /(?<!\*) *([""][^""]*[""])\*/g, each replaced by '$1'
    ReplaceAllGroup(
        ReplaceAllGroup(
            ReplaceAllGroup(text, <<Ch("*")>> \o QuotedSpan \o <<Ch("*")>>, <<>>, 1, <<>>),
            <<Ch("*")>> \o QuotedSpan \o <<Star(Ch(" ")), NotAhead(<<Ch("*")>>)>>, <<>>, 1, <<>>),
        <<NotBehind(Ch("*")), Star(Ch(" "))>> \o QuotedSpan \o <<Ch("*")>>, <<>>, 1, <<>>)

\* Stage 1.5
cleanupConsecutiveQuotes(text) ==
    LET quotes == Rep(Ch("\""), 2, -1)
        content == Group(1, <<Plus(NotIn({"\""}))>>)
    IN \* /"{2,}([^"]+)"{2,}/g, then /"{2,}([^"]+)" *(?!\*)/g, both replaced by '"$1"',
       \* then /(?<!\*) *([^"]+)"{2,}/g replaced by '$1"'
       ReplaceAllGroup(
           ReplaceAllGroup(
               ReplaceAllGroup(text, <<quotes>> \o content \o <<quotes>>, <<"\"">>, 1, <<"\"">>),
               <<quotes>> \o content \o <<Ch("\""), Star(Ch(" ")), NotAhead(<<Ch("*")>>)>>,
               <<"\"">>, 1, <<"\"">>),
           <<NotBehind(Ch("*")), Star(Ch(" "))>> \o content \o <<quotes>>, <<>>, 1, <<"\"">>)

\* [\w'-]+[?!./,:\\]? and [\w'"-]+[?!./,:\\]?
WordPunct == {"?", "!", ".", "/", ",", ":", "\\"}
Word == <<Plus(In(WordChar \cup {"'", "-"})), Opt(In(WordPunct))>>
WordOrQuote == <<Plus(In(WordChar \cup {"'", "\"", "-"})), Opt(In(WordPunct))>>

\* a stage that leaves single-word italics as they are
processNestedEmphasisSkipped(text) == text

\* Stage 2: /(?<!\*)\*([\w'-]+[?!./,:\\]?)\*(?!\*)/g
processNestedEmphasis(text) ==
    ReplaceAllGroup(text,
        <<NotBehind(Ch("*")), Ch("*")>> \o Group(1, Word) \o <<Ch("*"), NotAhead(<<Ch("*")>>)>>,
        <<"*", "*">>, 1, <<"*", "*">>)

\* Stage 3: /\*{4,}/g
cleanupQuadrupleAsterisks(text) ==
    ReplaceAllStr(text, <<Rep(Ch("*"), 4, -1)>>, <<"*", "*", "*">>)

\* result.match(re) for a regular expression with the g flag: the matched texts
MatchedTexts(s, re) ==
    LET texts(ms) == [i \in 1..Len(ms) |-> Matched(s, ms[i])]
    IN texts(MatchAll(re, s, 1))

\* the while loop of cleanupUnpairedDoubleAsterisks over one match, from position i on
RECURSIVE cleanedFrom(_, _)
cleanedFrom(match, i) ==
    IF i > Len(match) THEN <<>>
    ELSE IF LooksAt(match, i, <<"*", "*">>)
    THEN LET found(between) == Len(between) > 0 /\ ~Includes(between, <<"*", "*">>)
             closed(searchPos) ==
                 IF searchPos # 0 /\ found(Trim(Sub(match, i + 2, searchPos - 1)))
                 THEN Sub(match, i, searchPos + 1) \o cleanedFrom(match, searchPos + 2)
                 ELSE cleanedFrom(match, i + 2)
         IN closed(IndexOf(match, <<"*", "*">>, i + 2))
    ELSE <<match[i]>> \o cleanedFrom(match, i + 1)

\* allMatches.forEach of cleanupUnpairedDoubleAsterisks, from match k on
RECURSIVE cleanMatches(_, _, _)
cleanMatches(result, allMatches, k) ==
    IF k > Len(allMatches) THEN result
    ELSE LET continue(next) ==
                 IF Len(next) = 0 THEN next ELSE cleanMatches(next, allMatches, k + 1)
             replaced(match, cleaned) ==
                 IF match # cleaned THEN ReplaceFirstStr(result, Lit(match), cleaned)
                 ELSE result
         IN continue(replaced(allMatches[k], cleanedFrom(allMatches[k], 1)))

\* Stage 4
cleanupUnpairedDoubleAsterisks(text) ==
    LET stars == <<Ch("*"), Ch("*")>>
        \* /\*\*([\w'-]+[?!./,:\\]?)\*\*/g
        completeRegex == stars \o Group(1, Word) \o stars
        \* /\*\*([\w'"-]+[?!./,:\\]?)/g and /([\w'"-]+[?!./,:\\]?)\*\*/g
        unpaired(working) == MatchedTexts(working, stars \o Group(1, WordOrQuote))
                             \o MatchedTexts(working, Group(1, WordOrQuote) \o stars)
        allMatches(completePairs) ==
            completePairs \o unpaired(IF Len(completePairs) > 0
                                      THEN ReplaceAllStr(text, completeRegex, <<>>)
                                      ELSE text)
        cleaned(matches) == IF Len(matches) = 0 THEN text ELSE cleanMatches(text, matches, 1)
    IN cleaned(allMatches(MatchedTexts(text, completeRegex)))

\* match.replace('*', ''): the text without its first asterisk
withoutFirstAsterisk(match) ==
    LET p == IndexOf(match, <<"*">>, 1)
    IN IF p = 0 THEN match ELSE Sub(match, 1, p - 1) \o From(match, p + 1)

\* a clean-up that removes every asterisk of a quoted span
cleanupLoneInQuoteAll(match) == ReplaceAllStr(match, <<Ch("*")>>, <<>>)

\* the callback of cleanupLoneAsterisks on one quoted span
cleanupLoneInQuote(match) ==
    LET edge == Alt(<< <<WordBoundary>>, <<In(Space)>>, <<In({".", ",", "!", "?", ":"})>> >>)
        \* /(?:\b|\s|[.,!?:])\*(?!\*)|(?<!\*)\*(?:\b|\s|[.,!?:])/g
        lone == <<Alt(<< <<edge, Ch("*"), NotAhead(<<Ch("*")>>)>>,
                         <<NotBehind(Ch("*")), Ch("*"), edge>> >>)>>
        cleaned(ms) ==
            Splice(match, ms,
                   [i \in 1..Len(ms) |-> withoutFirstAsterisk(Matched(match, ms[i]))], 1, 1)
        \* /\s{2,}/g
    IN ReplaceAllStr(cleaned(MatchAll(lone, match, 1)), <<Rep(In(Space), 2, -1)>>, <<" ">>)

\* Stage 4.1: /"[^"]*"/g
cleanupLoneAsterisks(text) ==
    LET replaced(ms) ==
            Splice(text, ms,
                   [i \in 1..Len(ms) |-> cleanupLoneInQuote(Matched(text, ms[i]))], 1, 1)
    IN replaced(MatchAll(<<Ch("\""), Star(NotIn({"\""})), Ch("\"")>>, text, 1))

\* the callback of cleanupAsteriskSpacing and cleanupQuoteSpacing
spacingCallback(match, content, mark) ==
    LET hasSpaceBefore == StartsWith(match, <<" ">>)
        hasSpaceAfter == EndsWith(match, <<" ">>)
    IN (IF hasSpaceBefore THEN <<" ">> ELSE <<>>) \o <<mark>> \o Trim(content) \o <<mark>>
       \o (IF hasSpaceAfter THEN <<" ">> ELSE <<>>)

\* /(?<![\S])M\s*([^M]+?)\s*M(?![\S])/g for the mark M, with the callback
cleanupSpacing(text, mark) ==
    LET re == <<NotBehind(NotIn(Space)), Ch(mark), Star(In(Space))>>
              \o Group(1, <<Lazy(Plus(NotIn({mark})))>>)
              \o <<Star(In(Space)), Ch(mark), NotAhead(<<NotIn(Space)>>)>>
        replaced(ms) ==
            Splice(text, ms,
                   [i \in 1..Len(ms) |->
                       spacingCallback(Matched(text, ms[i]), Captured(text, ms[i], 1), mark)],
                   1, 1)
    IN replaced(MatchAll(re, text, 1))

\* Stage 4.2
cleanupAsteriskSpacing(text) == cleanupSpacing(text, "*")

\* Stage 4.3
cleanupQuoteSpacing(text) == cleanupSpacing(text, "\"")

(***************************************************************************)
(* Stage 5: processNarrative, with splitBetweenQuotes and isWithinEmphasis *)
(***************************************************************************)
\* text[i - 1] of the source: the character at position i, undefined outside the text
At(s, i) == IF i >= 1 /\ i <= Len(s) THEN s[i] ELSE "undefined"

\* the for loop of isWithinEmphasis that looks for a closer of the asterisk before
\* position: the first single asterisk at j .. position - 1, 0 when there is none
matchingCloser(text, j, position) ==
    LET none == position
        q == CHOOSE x \in j..none :
                 x = none \/ (text[x] = "*" /\ At(text, x - 1) # "*" /\ At(text, x + 1) # "*")
    IN IF j > position \/ q = none THEN 0 ELSE q

\* the while loop of isWithinEmphasis from position i on: openPos, 0 when there is none
RECURSIVE openPosFrom(_, _, _)
openPosFrom(text, i, position) ==
    IF i >= position THEN 0
    ELSE IF text[i] = "*"
    THEN IF At(text, i + 1) = "*" THEN openPosFrom(text, i + 2, position)
         ELSE IF At(text, i + 1) \in {" ", "\t"} THEN openPosFrom(text, i + 1, position)
         ELSE LET j == matchingCloser(text, i + 1, position)
              IN IF j = 0 THEN i
                 ELSE openPosFrom(text, j + 2, position)
    ELSE openPosFrom(text, i + 1, position)

\* a test that finds no quote inside emphasis
isWithinEmphasisNever(text, position) == FALSE

isWithinEmphasis(text, position) ==
    LET \* the paragraph of position: the line it is on
        paragraphStart ==
            CHOOSE x \in 1..position :
                /\ \A y \in x..(position - 1) : text[y] # "\n"
                /\ x = 1 \/ text[x - 1] = "\n"
        newline == IndexOf(text, <<"\n">>, position)
        paragraphEnd == IF newline = 0 THEN Len(text) + 1 ELSE newline
        openPos == openPosFrom(text, paragraphStart, position)
        \* the first single asterisk after position, before the end of the paragraph
        closePos == matchingCloser(text, position + 1, paragraphEnd)
    IN /\ openPos # 0
       /\ closePos # 0
       /\ At(text, closePos - 1) \notin {" ", "\t"}

\* /__PROTECTED_BLOCK_PLACEHOLDER_\d+__/
placeholderRegex ==
    Lit(protectedBlockPlaceholderPrefix) \o <<Plus(In(Digit))>> \o Lit(protectedBlockPlaceholderSuffix)

Section(raw, trimmed, type) == [raw |-> raw, text |-> trimmed, type |-> type]

\* a pushBuffer that keeps the buffer untrimmed as the section's text
pushBufferUntrimmed(sections, buffer) ==
    IF Len(buffer) > 0 THEN Append(sections, Section(buffer, buffer, "narrative"))
    ELSE sections

pushBuffer(sections, buffer) ==
    IF Len(buffer) > 0 THEN Append(sections, Section(buffer, Trim(buffer), "narrative"))
    ELSE sections

\* the number of newlines from position i on
newlineRun(text, i) ==
    CHOOSE n \in 0..(Len(text) - i + 1) : i + n > Len(text) \/ text[i + n] # "\n"

\* the first position from i on where the loop of splitBetweenQuotes, its buffer
\* not empty, does more than append the character to the buffer: a placeholder,
\* a backtick, a quote outside emphasis or a newline; Len(text) + 1 when there
\* is none
nextBoundary(text, i) ==
    CHOOSE k \in i..(Len(text) + 1) :
        /\ \/ k = Len(text) + 1
           \/ text[k] \in {Backtick, "\n"}
           \/ (text[k] = "\"" /\ ~isWithinEmphasis(text, k))
           \/ (text[k] = "_" /\ Match(placeholderRegex, text, k, NoCaps).ok)
        /\ \A j \in i..(k - 1) :
               /\ text[j] \notin {Backtick, "\n"}
               /\ ~(text[j] = "\"" /\ ~isWithinEmphasis(text, j))
               /\ ~(text[j] = "_" /\ Match(placeholderRegex, text, j, NoCaps).ok)

\* the for loop of splitBetweenQuotes from position i on; the iterations that
\* only append to the buffer are taken together, up to the next boundary
RECURSIVE splitFrom(_, _, _, _)
splitFrom(text, i, buffer, sections) ==
    IF i > Len(text) THEN pushBuffer(sections, buffer)
    ELSE
      LET char == text[i]
          placeholderMatch == Match(placeholderRegex, text, i, NoCaps)
          pushed == pushBuffer(sections, buffer)
      IN IF placeholderMatch.ok
         THEN LET placeholder == Sub(text, i, placeholderMatch.e - 1)
              IN splitFrom(text, placeholderMatch.e, <<>>,
                           Append(pushed, Section(placeholder, placeholder, "code")))
         ELSE IF char = Backtick
         THEN LET isTriple == LooksAt(text, i, <<Backtick, Backtick, Backtick>>)
                  fence == IF isTriple THEN <<Backtick, Backtick, Backtick>> ELSE <<Backtick>>
                  closing == IndexOf(text, fence, i + Len(fence))
                  last == IF closing = 0 THEN Len(text) ELSE closing + Len(fence) - 1
                  codeBuffer == Sub(text, i, last)
              IN splitFrom(text, last + 1, <<>>,
                           Append(pushed, Section(codeBuffer, codeBuffer, "code")))
         ELSE IF /\ (Len(buffer) = 0 \/ EndsWith(buffer, <<"\n">>))
                 /\ char \in AlNum
                 /\ i + 1 <= Len(text)
                 /\ text[i + 1] \in {".", ">", ")"}
         THEN LET newline == IndexOf(text, <<"\n">>, i + 2)
                  last == IF newline = 0 THEN Len(text) ELSE newline
                  cyoaBuffer == Sub(text, i, last)
              IN splitFrom(text, last + 1, <<>>,
                           Append(pushed, Section(cyoaBuffer, cyoaBuffer, "code")))
         ELSE IF char = "*"
         THEN LET next == nextBoundary(text, i + 1)
              IN splitFrom(text, next, buffer \o Sub(text, i, next - 1), sections)
         ELSE IF char = "\"" /\ ~isWithinEmphasis(text, i)
         THEN LET leadingSpace == IF i > 1 /\ text[i - 1] = " " THEN <<" ">> ELSE <<>>
                  closing == IndexOf(text, <<"\"">>, i + 1)
                  quoteEnd == IF closing = 0 THEN Len(text) ELSE closing
                  trailing == quoteEnd + 1 <= Len(text) /\ text[quoteEnd + 1] = " "
                  last == IF trailing THEN quoteEnd + 1 ELSE quoteEnd
                  quoteBuffer == leadingSpace \o Sub(text, i, last)
              IN splitFrom(text, last + 1, <<>>,
                           Append(pushed, Section(quoteBuffer, Trim(quoteBuffer), "quote")))
         ELSE IF char = "\n"
         THEN LET newlineCount == newlineRun(text, i)
              IN splitFrom(text, i + newlineCount, <<>>,
                           Append(pushBuffer(sections, Append(buffer, char)),
                                  Section(IF newlineCount > 1 THEN <<"\n", "\n">> ELSE <<"\n">>,
                                          <<>>, "newline")))
         ELSE LET next == nextBoundary(text, i + 1)
              IN splitFrom(text, next, buffer \o Sub(text, i, next - 1), sections)

splitBetweenQuotes(text) ==
    SelectSeq(splitFrom(text, 1, <<>>, <<>>),
              LAMBDA s : Len(s.text) > 0 \/ s.type = "newline")

\* a test that takes every section for italicized
isItalicizedAlways(text) == TRUE

\* /^\*[^*]+\*$/
isItalicized(text) ==
    /\ Len(text) >= 3
    /\ text[1] = "*"
    /\ text[Len(text)] = "*"
    /\ \A i \in 2..(Len(text) - 1) : text[i] # "*"

\* the for loop of processNarrative from section i on
RECURSIVE narrativeFrom(_, _, _)
narrativeFrom(sections, i, result0) ==
    IF i > Len(sections) THEN result0
    ELSE
      LET section == sections[i]
          \* Prevent double spaces when joining sections
          result == IF /\ Len(result0) > 0 /\ Len(section.raw) > 0
                       /\ EndsWith(result0, <<" ">>) /\ StartsWith(section.raw, <<" ">>)
                    THEN Sub(result0, 1, Len(result0) - 1)
                    ELSE result0
          opening == IF ~StartsWith(section.text, <<"*">>)
                     THEN (IF /\ Len(result) > 0 /\ ~EndsWith(result, <<" ">>)
                              /\ ~EndsWith(result, <<"\n">>)
                           THEN <<" ">> ELSE <<>>) \o <<"*">>
                     ELSE <<>>
          closing == IF ~EndsWith(section.text, <<"*">>)
                     THEN <<"*">> \o (IF /\ i < Len(sections)
                                         /\ ~EndsWith(section.text, <<" ">>)
                                         /\ sections[i + 1].type # "newline"
                                      THEN <<" ">> ELSE <<>>)
                     ELSE <<>>
          next == IF section.type \in {"newline", "quote", "code"}
                  THEN result \o section.raw
                  ELSE IF ~isItalicized(section.text)
                  THEN result \o opening \o section.text \o closing
                  ELSE result \o section.raw
      IN IF Len(next) = 0 THEN narrativeFrom(sections, i + 1, <<>>)
         ELSE narrativeFrom(sections, i + 1, next)

processNarrative(text) == Trim(narrativeFrom(splitBetweenQuotes(text), 1, <<>>))

(***************************************************************************)
(* Stages 6 to 7.5                                                         *)
(***************************************************************************)
\* Stage 6: /\n{3,}/g
cleanupExcessNewlines(text) ==
    ReplaceAllStr(text, <<Rep(Ch("\n"), 3, -1)>>, <<"\n", "\n">>)

\* Stage 6.5
cleanupExcessSpaces(text) ==
    \* / {2,}/g replaced by ' ', then / \.\.\. /g by '...', then / ([.,!?;:—])/g by '$1'
    ReplaceAllGroup(
        ReplaceAllStr(
            ReplaceAllStr(text, <<Rep(Ch(" "), 2, -1)>>, <<" ">>),
            Lit(<<" ", ".", ".", ".", " ">>), <<".", ".", ".">>),
        <<Ch(" ")>> \o Group(1, <<In({".", ",", "!", "?", ";", ":", "U+2014"})>>),
        <<>>, 1, <<>>)

\* the clean-up of mergeNestedEmphasis for a section with a third single asterisk
cleanupSection(buffer) ==
    LET stars == <<Ch("*"), Ch("*")>>
        ats == <<Ch("@"), Ch("@")>>
        \* /\*/g
        cleaned(marked) == <<"*">> \o SelectSeq(From(marked, 2), LAMBDA c : c # "*")
        \* /\*\*([^*]+)\*\*/g, and then /@@([^@]+)@@/g
    IN ReplaceAllGroup(
           cleaned(ReplaceAllGroup(buffer, stars \o Group(1, <<Plus(NotIn({"*"}))>>) \o stars,
                                   <<"@", "@">>, 1, <<"@", "@">>)),
           ats \o Group(1, <<Plus(NotIn({"@"}))>>) \o ats, <<"*", "*">>, 1, <<"*", "*">>)

\* the for loop of mergeNestedEmphasis from position i on; st is the record of
\* its variables result, sectionStart (0 for -1), asteriskCount and buffer
RECURSIVE mergeFrom(_, _, _)
mergeFrom(text, i, st) ==
    IF i > Len(text)
    THEN IF st.sectionStart # 0
         THEN st.result \o (IF st.asteriskCount >= 3
                            THEN <<"*">> \o From(st.buffer, 2) \o <<"*">>
                            ELSE st.buffer)
         ELSE st.result
    ELSE
      LET char == text[i]
          inSection == st.sectionStart # 0
      IN IF char = "\"" \/ char = "\n"
         THEN mergeFrom(text, i + 1,
                  [result |-> (IF inSection THEN st.result \o st.buffer ELSE st.result) \o <<char>>,
                   sectionStart |-> 0, asteriskCount |-> 0, buffer |-> <<>>])
         ELSE IF char = "*" /\ At(text, i + 1) = "*"
         THEN mergeFrom(text, i + 2,
                  IF inSection THEN [st EXCEPT !.buffer = @ \o <<"*", "*">>]
                  ELSE [st EXCEPT !.result = @ \o <<"*", "*">>])
         ELSE IF char = "*"
         THEN mergeFrom(text, i + 1,
                  IF ~inSection
                  THEN [st EXCEPT !.sectionStart = i, !.asteriskCount = 1, !.buffer = <<"*">>]
                  ELSE IF st.asteriskCount + 1 = 3
                  THEN [st EXCEPT !.asteriskCount = 3, !.buffer = cleanupSection(st.buffer)]
                  ELSE [st EXCEPT !.asteriskCount = @ + 1, !.buffer = Append(@, char)])
         ELSE
           \* the iterations over a run of ordinary characters, taken together
           LET stop == CHOOSE j \in (i + 1)..(Len(text) + 1) :
                           j = Len(text) + 1 \/ text[j] \in {"*", "\"", "\n"}
               run == Sub(text, i, stop - 1)
           IN mergeFrom(text, stop,
                  IF inSection THEN [st EXCEPT !.buffer = @ \o run]
                  ELSE [st EXCEPT !.result = @ \o run])

\* Stage 7
mergeNestedEmphasis(text) ==
    mergeFrom(text, 1, [result |-> <<>>, sectionStart |-> 0, asteriskCount |-> 0, buffer |-> <<>>])

\* text.split('\n')
RECURSIVE SplitLines(_)
SplitLines(text) ==
    LET newline == IndexOf(text, <<"\n">>, 1)
    IN IF newline = 0 THEN <<text>>
       ELSE <<Sub(text, 1, newline - 1)>> \o SplitLines(From(text, newline + 1))

\* the callback of fixSingleWordEmphasisAtLineStart on one line
fixLine(line) ==
    LET stars == <<Ch("*"), Ch("*")>>
        \* /^(\s*)\*\*([^*]+?)\*\*(.*)$/
        re == Group(1, <<Star(In(Space))>>) \o stars \o Group(2, <<Lazy(Plus(NotIn({"*"})))>>)
              \o stars \o Group(3, <<Star(Dot)>>) \o <<TextEnd>>
        match == Match(re, line, 1, NoCaps)
        leadingSpace == Captured(line, match, 1)
        boldContent == Captured(line, match, 2)
        restOfLine == Captured(line, match, 3)
    IN IF StartsWith(Trim(line), <<"*">>) /\ ~StartsWith(Trim(line), <<"*", "*">>) THEN line
       ELSE IF ~match.ok THEN line
       ELSE IF Len(Trim(restOfLine)) > 0
       THEN leadingSpace \o <<"*", "*", "*">> \o boldContent \o <<"*", "*">> \o restOfLine
       ELSE leadingSpace \o <<"*", "*", "*">> \o boldContent \o <<"*", "*", "*">>

\* a fix-up that leaves every line as it is
fixSingleWordEmphasisAtLineStartSkipped(text) == text

\* Stage 7.5
fixSingleWordEmphasisAtLineStart(text) ==
    LET lines == SplitLines(text)
    IN Join([i \in 1..Len(lines) |-> fixLine(lines[i])], <<"\n">>)

\* uses of the format button or of /format in one run
MaxCalls == 1

\* a catch block that hands back the partially processed text
caughtPartial(text, result) == result

\* catch (error) { return text; }: processText's value when the try block throws
caught(text, result) == text

\* ---------------------------------------------------------------------
\* The extension's state

VARIABLES
    extensionSettings,   \* context.extensionSettings['format-fixer']
    saveRequested,       \* context.saveSettingsDebounced() has been called
    characterId,         \* context.characterId; 0 stands for undefined
    initialized,         \* the jQuery ready callback has registered the handlers
    sendTextarea,        \* value of #send_textarea
    clicksLeft,          \* uses of the format button or of /format still to come
    caller,              \* the handler that is running processText
    commands,            \* the /format command that finished last, unless a click followed
    pc,                  \* position inside the running handler
    text,                \* processText's parameter
    result,              \* processText's local
    protectedBlocks,     \* processText's local
    heightMeasurements,  \* processText's local
    outcome,             \* how the running call left the try block
    returned,            \* the value processText returns
    calls                \* the last two finished calls, older first

vars == <<extensionSettings, saveRequested, characterId, initialized, sendTextarea,
          clicksLeft, caller, commands, pc, text, result, protectedBlocks,
          heightMeasurements, outcome, returned, calls>>

locals == <<text, result, protectedBlocks, heightMeasurements, outcome, returned>>

host == <<extensionSettings, saveRequested, characterId, initialized, sendTextarea,
          clicksLeft, caller, commands, calls>>

\* the log of finished calls with one more: the last call and the one before
Logged(log, call) == IF Len(log) = 0 THEN <<call>> ELSE <<log[Len(log)], call>>

\* const formatFixerDefaults = { processQuotes: false }
formatFixerDefaults == [exists |-> TRUE, keys |-> {"processQuotes"}, processQuotes |-> FALSE]

\* what the host may hold under the extension's name before the extension runs:
\* nothing, an empty object, or an object saved by an earlier session
StoredSettings ==
    {[exists |-> FALSE, keys |-> {}, processQuotes |-> FALSE],
     [exists |-> TRUE, keys |-> {}, processQuotes |-> FALSE],
     [exists |-> TRUE, keys |-> {"processQuotes"}, processQuotes |-> FALSE],
     [exists |-> TRUE, keys |-> {"processQuotes"}, processQuotes |-> TRUE]}

\* the object loadSettings leaves in context.extensionSettings and returns
loadSettings(stored) ==
    IF ~stored.exists \/ stored.keys = {} THEN formatFixerDefaults
    ELSE IF "processQuotes" \notin stored.keys
    THEN [stored EXCEPT !.keys = @ \cup {"processQuotes"}, !.processQuotes = FALSE]
    ELSE stored

\* context.characters of the host: an Assistant character and an ordinary one
characters == <<[tags |-> {"Assistant"}], [tags |-> {"Human"}]>>

\* the jQuery ready callback: loads the settings and registers the handlers;
\* when the host call throws, the callback's catch leaves nothing registered
Initialize ==
    /\ pc = "idle" /\ ~initialized
    /\ initialized' = TRUE
    /\ extensionSettings' = loadSettings(extensionSettings)
    /\ saveRequested' = TRUE
    /\ UNCHANGED <<characterId, sendTextarea, clicksLeft, caller, commands, pc, calls>>
    /\ UNCHANGED locals

onProcessQuotesToggleChange ==
    /\ pc = "idle" /\ initialized
    /\ \E checked \in BOOLEAN :
          extensionSettings' = [extensionSettings EXCEPT !.processQuotes = checked]
    /\ saveRequested' = TRUE
    /\ UNCHANGED <<characterId, initialized, sendTextarea, clicksLeft, caller, commands, pc, calls>>
    /\ UNCHANGED locals

\* the click handler of #format_message up to its call of processText
FormatMessageClick ==
    /\ pc = "idle" /\ initialized
    /\ clicksLeft > 0
    /\ clicksLeft' = clicksLeft - 1
    /\ Len(sendTextarea) > 0
    /\ text' = sendTextarea
    /\ caller' = "click"
    /\ commands' = <<>>
    /\ pc' = "getContext"
    /\ UNCHANGED <<result, protectedBlocks, heightMeasurements, outcome, returned>>
    /\ UNCHANGED <<extensionSettings, saveRequested, characterId, initialized, sendTextarea, calls>>

\* "Please provide text to format"
formatCommandAdvisory ==
    <<"P","l","e","a","s","e"," ","p","r","o","v","i","d","e"," ",
      "t","e","x","t"," ","t","o"," ","f","o","r","m","a","t">>

\* a test that takes every argument for text
isFalsyNever(arg) == FALSE

\* !text for the argument of a slash command: missing or the empty string
isFalsy(arg) == ~arg.given \/ arg.text = <<>>

\* formatCommand up to its call of processText; the command is registered when
\* the script is evaluated, and the quick replies hand it the message box
FormatCommand ==
    /\ pc = "idle"
    /\ clicksLeft > 0
    /\ clicksLeft' = clicksLeft - 1
    /\ \E given \in BOOLEAN :
          LET arg == [given |-> given, text |-> IF given THEN sendTextarea ELSE <<>>]
          IN IF isFalsy(arg)
             THEN /\ commands' = <<[arg |-> arg, ran |-> FALSE,
                                   returned |-> formatCommandAdvisory]>>
                  /\ UNCHANGED <<text, caller, pc>>
             ELSE /\ text' = arg.text
                  /\ caller' = "command"
                  /\ pc' = "getContext"
                  /\ UNCHANGED commands
    /\ UNCHANGED <<result, protectedBlocks, heightMeasurements, outcome, returned>>
    /\ UNCHANGED <<extensionSettings, saveRequested, characterId, initialized, sendTextarea, calls>>

\* const context = SillyTavern.getContext(): the host yields it or throws
GetContext ==
    /\ pc = "getContext"
    /\ \E available \in BOOLEAN : pc' = IF available THEN "loadSettings" ELSE "catch"
    /\ UNCHANGED locals
    /\ UNCHANGED host

\* const settings = loadSettings()
LoadSettings ==
    /\ pc = "loadSettings"
    /\ extensionSettings' = loadSettings(extensionSettings)
    /\ saveRequested' = TRUE
    /\ pc' = "checkAssistant"
    /\ UNCHANGED <<characterId, initialized, sendTextarea, clicksLeft, caller, commands, calls>>
    /\ UNCHANGED locals

\* a check that lets the call of an Assistant character through to the stages
CheckAssistantIgnored ==
    /\ pc = "checkAssistant"
    /\ IF characterId \notin DOMAIN characters
       THEN pc' = "catch"
       ELSE pc' = "uncensorText"
    /\ UNCHANGED <<text, result, protectedBlocks, heightMeasurements, outcome, returned>>
    /\ UNCHANGED host

\* if (context.characters[context.characterId].tags.includes("Assistant")) return text;
\* with no character selected the property access throws
CheckAssistant ==
    /\ pc = "checkAssistant"
    /\ IF characterId \notin DOMAIN characters
       THEN pc' = "catch" /\ UNCHANGED <<outcome, returned>>
       ELSE IF "Assistant" \in characters[characterId].tags
       THEN pc' = "return" /\ outcome' = "skipped" /\ returned' = text
       ELSE pc' = "uncensorText" /\ UNCHANGED <<outcome, returned>>
    /\ UNCHANGED <<text, result, protectedBlocks, heightMeasurements>>
    /\ UNCHANGED host

\* catch (error) { return text; }
Catch ==
    /\ pc = "catch"
    /\ outcome' = "caught"
    /\ returned' = caught(text, result)
    /\ pc' = "return"
    /\ UNCHANGED <<text, result, protectedBlocks, heightMeasurements>>
    /\ UNCHANGED host

UncensorText ==
    /\ pc = "uncensorText"
    /\ result' = uncensorText(text)
    /\ pc' = "extractProtectedBlocks"
    /\ UNCHANGED <<text, protectedBlocks, heightMeasurements, outcome, returned>>
    /\ UNCHANGED host

\* an extraction into a mapping that still holds the entries of the call before
ExtractProtectedBlocksShared ==
    /\ pc = "extractProtectedBlocks"
    /\ LET extracted == extractProtectedBlocks(result)
           earlier == IF Len(calls) > 0
                      THEN extractProtectedBlocks(calls[Len(calls)].text).protectedBlocks
                      ELSE <<>>
       IN /\ result' = extracted.text
          /\ protectedBlocks' = earlier \o extracted.protectedBlocks
    /\ pc' = "normalizeSmartCharacters"
    /\ UNCHANGED <<text, heightMeasurements, outcome, returned>>
    /\ UNCHANGED host

ExtractProtectedBlocks ==
    /\ pc = "extractProtectedBlocks"
    /\ LET extracted == extractProtectedBlocks(result)
       IN /\ result' = extracted.text
          /\ protectedBlocks' = extracted.protectedBlocks
    /\ pc' = "normalizeSmartCharacters"
    /\ UNCHANGED <<text, heightMeasurements, outcome, returned>>
    /\ UNCHANGED host

NormalizeSmartCharacters ==
    /\ pc = "normalizeSmartCharacters"
    /\ result' = normalizeSmartCharacters(result)
    /\ pc' = "protectHeightMeasurements"
    /\ UNCHANGED <<text, protectedBlocks, heightMeasurements, outcome, returned>>
    /\ UNCHANGED host

ProtectHeightMeasurements ==
    /\ pc = "protectHeightMeasurements"
    /\ LET protected == protectHeightMeasurements(result)
       IN /\ result' = protected.text
          /\ heightMeasurements' = protected.heightMeasurements
    /\ pc' = "processQuotes"
    /\ UNCHANGED <<text, protectedBlocks, outcome, returned>>
    /\ UNCHANGED host

\* a stage 1 that strips the asterisks whatever the setting says
ProcessQuotesAlways ==
    /\ pc = "processQuotes"
    /\ result' = processQuotes(result)
    /\ pc' = "cleanupConsecutiveQuotes"
    /\ UNCHANGED <<text, protectedBlocks, heightMeasurements, outcome, returned>>
    /\ UNCHANGED host

\* if (settings.processQuotes) result = this.processQuotes(result)
ProcessQuotes ==
    /\ pc = "processQuotes"
    /\ result' = IF extensionSettings.processQuotes THEN processQuotes(result) ELSE result
    /\ pc' = "cleanupConsecutiveQuotes"
    /\ UNCHANGED <<text, protectedBlocks, heightMeasurements, outcome, returned>>
    /\ UNCHANGED host

CleanupConsecutiveQuotes ==
    /\ pc = "cleanupConsecutiveQuotes"
    /\ result' = cleanupConsecutiveQuotes(result)
    /\ pc' = "processNestedEmphasis"
    /\ UNCHANGED <<text, protectedBlocks, heightMeasurements, outcome, returned>>
    /\ UNCHANGED host

ProcessNestedEmphasis ==
    /\ pc = "processNestedEmphasis"
    /\ result' = processNestedEmphasis(result)
    /\ pc' = "cleanupQuadrupleAsterisks"
    /\ UNCHANGED <<text, protectedBlocks, heightMeasurements, outcome, returned>>
    /\ UNCHANGED host

CleanupQuadrupleAsterisks ==
    /\ pc = "cleanupQuadrupleAsterisks"
    /\ result' = cleanupQuadrupleAsterisks(result)
    /\ pc' = "cleanupUnpairedDoubleAsterisks"
    /\ UNCHANGED <<text, protectedBlocks, heightMeasurements, outcome, returned>>
    /\ UNCHANGED host

CleanupUnpairedDoubleAsterisks ==
    /\ pc = "cleanupUnpairedDoubleAsterisks"
    /\ result' = cleanupUnpairedDoubleAsterisks(result)
    /\ pc' = "cleanupLoneAsterisks"
    /\ UNCHANGED <<text, protectedBlocks, heightMeasurements, outcome, returned>>
    /\ UNCHANGED host

CleanupLoneAsterisks ==
    /\ pc = "cleanupLoneAsterisks"
    /\ result' = cleanupLoneAsterisks(result)
    /\ pc' = "cleanupAsteriskSpacing"
    /\ UNCHANGED <<text, protectedBlocks, heightMeasurements, outcome, returned>>
    /\ UNCHANGED host

CleanupAsteriskSpacing ==
    /\ pc = "cleanupAsteriskSpacing"
    /\ result' = cleanupAsteriskSpacing(result)
    /\ pc' = "cleanupQuoteSpacing"
    /\ UNCHANGED <<text, protectedBlocks, heightMeasurements, outcome, returned>>
    /\ UNCHANGED host

CleanupQuoteSpacing ==
    /\ pc = "cleanupQuoteSpacing"
    /\ result' = cleanupQuoteSpacing(result)
    /\ pc' = "processNarrative"
    /\ UNCHANGED <<text, protectedBlocks, heightMeasurements, outcome, returned>>
    /\ UNCHANGED host

ProcessNarrative ==
    /\ pc = "processNarrative"
    /\ result' = processNarrative(result)
    /\ pc' = "cleanupExcessNewlines"
    /\ UNCHANGED <<text, protectedBlocks, heightMeasurements, outcome, returned>>
    /\ UNCHANGED host

CleanupExcessNewlines ==
    /\ pc = "cleanupExcessNewlines"
    /\ result' = cleanupExcessNewlines(result)
    /\ pc' = "cleanupExcessSpaces"
    /\ UNCHANGED <<text, protectedBlocks, heightMeasurements, outcome, returned>>
    /\ UNCHANGED host

CleanupExcessSpaces ==
    /\ pc = "cleanupExcessSpaces"
    /\ result' = cleanupExcessSpaces(result)
    /\ pc' = "mergeNestedEmphasis"
    /\ UNCHANGED <<text, protectedBlocks, heightMeasurements, outcome, returned>>
    /\ UNCHANGED host

MergeNestedEmphasis ==
    /\ pc = "mergeNestedEmphasis"
    /\ result' = mergeNestedEmphasis(result)
    /\ pc' = "fixSingleWordEmphasisAtLineStart"
    /\ UNCHANGED <<text, protectedBlocks, heightMeasurements, outcome, returned>>
    /\ UNCHANGED host

FixSingleWordEmphasisAtLineStart ==
    /\ pc = "fixSingleWordEmphasisAtLineStart"
    /\ result' = fixSingleWordEmphasisAtLineStart(result)
    /\ pc' = "restoreHeightMeasurements"
    /\ UNCHANGED <<text, protectedBlocks, heightMeasurements, outcome, returned>>
    /\ UNCHANGED host

RestoreHeightMeasurements ==
    /\ pc = "restoreHeightMeasurements"
    /\ result' = restoreHeightMeasurements(result, heightMeasurements)
    /\ pc' = "restoreProtectedBlocks"
    /\ UNCHANGED <<text, protectedBlocks, heightMeasurements, outcome, returned>>
    /\ UNCHANGED host

\* the last stage and "return result"
RestoreProtectedBlocks ==
    /\ pc = "restoreProtectedBlocks"
    /\ result' = restoreProtectedBlocks(result, protectedBlocks)
    /\ returned' = result'
    /\ outcome' = "formatted"
    /\ pc' = "return"
    /\ UNCHANGED <<text, protectedBlocks, heightMeasurements>>
    /\ UNCHANGED host

\* back in the click handler: messageInput.val(formattedText)
FormatMessageDone ==
    /\ pc = "return" /\ caller = "click"
    /\ sendTextarea' = returned
    /\ calls' = Logged(calls, [text |-> text, returned |-> returned, outcome |-> outcome,
                               processQuotes |-> extensionSettings.processQuotes])
    /\ pc' = "idle"
    /\ text' = <<>> /\ result' = <<>> /\ protectedBlocks' = <<>>
    /\ heightMeasurements' = <<>> /\ outcome' = "none" /\ returned' = <<>>
    /\ caller' = "none"
    /\ UNCHANGED <<extensionSettings, saveRequested, characterId, initialized, clicksLeft, commands>>

\* back in formatCommand: return processor.processText(text)
FormatCommandDone ==
    /\ pc = "return" /\ caller = "command"
    /\ commands' = <<[arg |-> [given |-> TRUE, text |-> text], ran |-> TRUE,
                     returned |-> returned]>>
    /\ calls' = Logged(calls, [text |-> text, returned |-> returned, outcome |-> outcome,
                               processQuotes |-> extensionSettings.processQuotes])
    /\ pc' = "idle"
    /\ text' = <<>> /\ result' = <<>> /\ protectedBlocks' = <<>>
    /\ heightMeasurements' = <<>> /\ outcome' = "none" /\ returned' = <<>>
    /\ caller' = "none"
    /\ UNCHANGED <<extensionSettings, saveRequested, characterId, initialized, sendTextarea,
                   clicksLeft>>

Next ==
    \/ Initialize
    \/ onProcessQuotesToggleChange
    \/ FormatMessageClick
    \/ FormatCommand
    \/ GetContext
    \/ LoadSettings
    \/ CheckAssistant
    \/ Catch
    \/ UncensorText
    \/ ExtractProtectedBlocks
    \/ NormalizeSmartCharacters
    \/ ProtectHeightMeasurements
    \/ ProcessQuotes
    \/ CleanupConsecutiveQuotes
    \/ ProcessNestedEmphasis
    \/ CleanupQuadrupleAsterisks
    \/ CleanupUnpairedDoubleAsterisks
    \/ CleanupLoneAsterisks
    \/ CleanupAsteriskSpacing
    \/ CleanupQuoteSpacing
    \/ ProcessNarrative
    \/ CleanupExcessNewlines
    \/ CleanupExcessSpaces
    \/ MergeNestedEmphasis
    \/ FixSingleWordEmphasisAtLineStart
    \/ RestoreHeightMeasurements
    \/ RestoreProtectedBlocks
    \/ FormatMessageDone
    \/ FormatCommandDone

\* the state once the script has been evaluated, with one of `messages` typed
\* into the message box and `clicks` clicks on the format button to come
InitWith(messages, clicks) ==
    /\ extensionSettings \in StoredSettings
    /\ saveRequested = FALSE
    /\ characterId \in 0..Len(characters)
    /\ initialized = FALSE
    /\ sendTextarea \in messages
    /\ clicksLeft = clicks
    /\ caller = "none"
    /\ commands = <<>>
    /\ pc = "idle"
    /\ text = <<>> /\ result = <<>> /\ protectedBlocks = <<>>
    /\ heightMeasurements = <<>> /\ outcome = "none" /\ returned = <<>>
    /\ calls = <<>>

\* all texts over an alphabet up to a given length
Strings(alphabet, n) == UNION {[1..k -> alphabet] : k \in 0..n}

\* all texts a \o b
Concat(as, bs) == {a \o b : a \in as, b \in bs}

\* any short message, formatted up to MaxCalls times
MaxLen == 2

Alphabet == {"*", "\"", "a", " "}

Init == InitWith(Strings(Alphabet, MaxLen), MaxCalls)

Spec == Init /\ [][Next]_vars

\* any short message, formatted and then formatted again
InitTwice == InitWith(Strings(Alphabet, MaxLen), 2)

SpecTwice == InitTwice /\ [][Next]_vars

\* any message of up to MaxText characters, formatted once
MaxText == 3

InitOnce == InitWith(Strings(Alphabet, MaxText), 1)

SpecOnce == InitOnce /\ [][Next]_vars

\* ---------------------------------------------------------------------
\* Messages of a given shape, each formatted once

\* <think>c</think>, <think>c to the end of the text, and [c]
ClosedThink(c) == ThinkOpen \o c \o ThinkClose
OpenThink(c) == ThinkOpen \o c
Bracketed(c) == <<"[">> \o c \o <<"]">>

MaxBlock == 2

\* a protected span with a short content, alone or between narration; a think
\* block inside a bracketed span; a think block before a message label
ProtectedMessages ==
    LET contents == Strings({"*", "\"", "a", "$"}, MaxBlock)
        blocks == {ClosedThink(c) : c \in contents} \cup {OpenThink(c) : c \in contents}
                  \cup {Bracketed(c) : c \in contents}
    IN Concat({<<>>, <<"a", " ">>}, Concat(blocks, {<<>>, <<" ", "a">>}))
       \cup {Bracketed(ClosedThink(<<"a">>)),
             ClosedThink(<<"a">>) \o MessageTag \o <<"1", ":", " ", "b">>}

InitProtected == InitWith(ProtectedMessages, 1)

SpecProtected == InitProtected /\ [][Next]_vars

Quoted(c) == <<"\"">> \o c \o <<"\"">>

QuoteAlphabet == {"a", " ", "."}

MaxSpan == 2
MaxQuote == 1
MaxNarration == 2

\* *"c"* for a short content c, and "q" n for a short quote q and narration n;
\* with them the examples of the README
QuotedMessages ==
    LET spans == (Strings(QuoteAlphabet, MaxSpan) \ {<<>>})
                 \cup {<<"a", " ", "a">>, <<"H", "e", "l", "l", "o">>}
        quotes == (Strings(QuoteAlphabet, MaxQuote) \ {<<>>}) \cup {<<"H", "i">>}
        narrations == (Strings(QuoteAlphabet, MaxNarration) \ {<<>>})
                      \cup {<<"s", "h", "e", " ", "s", "a", "i", "d">>}
    IN {<<"*">> \o Quoted(c) \o <<"*">> : c \in spans}
       \cup {Quoted(q) \o <<" ">> \o n : q \in quotes, n \in narrations}

InitQuoted == InitWith(QuotedMessages, 1)

SpecQuoted == InitQuoted /\ [][Next]_vars

\* *before *w* after*: the word w in italics inside italic narration
NestedWord(before, w, after) ==
    <<"*">> \o before \o <<" ", "*">> \o w \o <<"*", " ">> \o after \o <<"*">>

\* the same with w in bold
NestedBold(before, w, after) ==
    <<"*">> \o before \o <<" ", "*", "*">> \o w \o <<"*", "*", " ">> \o after \o <<"*">>

WordAlphabet == {"f", "k", "_", "'", "-"}

MaxWord == 2

NestedWords ==
    (Strings(WordAlphabet, MaxWord) \ {<<>>})
    \cup {<<"f", "_", "k">>, <<"v", "e", "r", "y">>, <<"B", "2">>}

\* the narration around the word: TEST_CASES.nested, and a shorter one
NestedContexts ==
    {[before |-> <<"T", "h", "e", " ", "c", "a", "t", " ", "w", "a", "s">>,
      after |-> <<"c", "u", "t", "e">>],
     [before |-> <<"a">>, after |-> <<"b", " ", "c">>]}

NestedMessages ==
    {NestedWord(c.before, w, c.after) : c \in NestedContexts, w \in NestedWords}

InitNested == InitWith(NestedMessages, 1)

SpecNested == InitNested /\ [][Next]_vars

MaxRest == 4

\* one line that starts with a list marker
ListMessages ==
    Concat({<<"1", ".">>, <<"2", ">">>, <<"A", ")">>, <<"B", ".">>},
           Strings({"*", "a", " "}, MaxRest))

InitList == InitWith(ListMessages, 1)

SpecList == InitList /\ [][Next]_vars

MaxPrefix == 4

\* a short text of words and asterisks, alone or before a run of asterisks
RunMessages ==
    Concat(Strings({"a", "*", " "}, MaxPrefix),
           {<<>>, <<" ", "*", "*", "*">>, <<"*", "*", "*", "*">>}) \ {<<>>}

InitRuns == InitWith(RunMessages, 1)

SpecRuns == InitRuns /\ [][Next]_vars

MaxPlain == 4

\* text without any asterisk or quote
PlainMessages == Strings({"a", " ", "\n"}, MaxPlain) \ {<<>>}

InitPlain == InitWith(PlainMessages, 1)

SpecPlain == InitPlain /\ [][Next]_vars

\* code spans: `c`, ```c``` and `c running to the end of the text
InlineCode(c) == <<Backtick>> \o c \o <<Backtick>>
FencedCode(c) == <<Backtick, Backtick, Backtick>> \o c \o <<Backtick, Backtick, Backtick>>
OpenCode(c) == <<Backtick>> \o c

MaxCode == 3

CodeContents == Strings({"*", "a", " "}, MaxCode) \ {<<>>}

CodeMessages ==
    {InlineCode(c) : c \in CodeContents} \cup {FencedCode(c) : c \in CodeContents}
    \cup {OpenCode(c) : c \in CodeContents}

InitCode == InitWith(CodeMessages, 1)

SpecCode == InitCode /\ [][Next]_vars

\* quoted spans with asterisks next to them or with duplicated quote characters
MaxDoubled == 2

DoubledContents == Strings({"a", " "}, MaxDoubled) \ {<<>>}

DoubledMessages ==
    UNION {{<<"*">> \o Quoted(c) \o <<"*">>, <<"*">> \o Quoted(c), Quoted(c) \o <<"*">>,
            <<"\"">> \o Quoted(c) \o <<"\"">>, <<"\"">> \o Quoted(c), Quoted(c) \o <<"\"">>,
            c \o <<"\"", "\"">>} : c \in DoubledContents}

InitDoubled == InitWith(DoubledMessages, 1)

SpecDoubled == InitDoubled /\ [][Next]_vars

\* "before *w* after" and "before **w** after"
QuotedWord(before, w, after) ==
    Quoted(before \o <<" ", "*">> \o w \o <<"*", " ">> \o after)

QuotedBold(before, w, after) ==
    Quoted(before \o <<" ", "*", "*">> \o w \o <<"*", "*", " ">> \o after)

\* the quote around the word: TEST_CASES.nested, a shorter one, and one with
\* two spaces in it
QuoteContexts ==
    {[before |-> <<"H", "e", " ", "w", "a", "s">>, after |-> <<"h", "a", "p", "p", "y">>],
     [before |-> <<"a">>, after |-> <<"b">>],
     [before |-> <<"a", " ">>, after |-> <<"b">>]}

QuotedWordMessages ==
    {QuotedWord(c.before, w, c.after) : c \in QuoteContexts, w \in NestedWords}

InitQuotedWord == InitWith(QuotedWordMessages, 1)

SpecQuotedWord == InitQuotedWord /\ [][Next]_vars

\* *before "q" after*: an italic narration with a quoted span in it
ItalicWithQuote(before, q, after) ==
    <<"*">> \o before \o Quoted(q) \o after \o <<"*">>

\* TEST_CASES.narrative_quote and shorter ones: with two spaces, with spaces
\* inside the quote, with an empty quote, with the quote at either end
ItalicQuoteParts ==
    [before : {<<"T", "h", "e", " ", "m", "a", "n", " ", "n", "e", "e", "d", "e", "d", " ", "n", "o", " ">>,
               <<"a", " ">>, <<"a", " ", " ">>, <<>>},
     q : {<<"h", "e", "l", "p">>, <<"b">>, <<" ", "b">>, <<>>},
     after : {<<" ", "t", "o", " ", "f", "e", "t", "c", "h", " ", "h", "i", "s", " ", "g", "u", "n">>,
              <<" ", "c">>, <<>>}]

ItalicQuoteMessages ==
    {ItalicWithQuote(m.before, m.q, m.after) : m \in ItalicQuoteParts}

InitItalicQuote == InitWith(ItalicQuoteMessages, 1)

SpecItalicQuote == InitItalicQuote /\ [][Next]_vars

\* one-line messages of words, spaces, full stops and apostrophes; with them
\* the input of TEST_CASES.spacing_issues
MaxSpacing == 3

spacing_issues ==
    <<"I", " ", " ", "'", "v", "e", " ", "g", "o", "t", " ", " ", " ", " ", " ",
      "w", "a", "y", " ", "t", "o", "o", " ", "m", "a", "n", "y", " ", " ", " ", " ",
      "s", "p", "a", "c", "e", "s", " ", " ", " ", "-", " ", "i", "n", " ", "m", "y", " ",
      "t", "e", "x", "t", " ", " ", ".">>

spacing_expected ==
    <<"*", "I", "'", "v", "e", " ", "g", "o", "t", " ", "w", "a", "y", " ", "t", "o", "o", " ",
      "m", "a", "n", "y", " ", "s", "p", "a", "c", "e", "s", " ", "-", " ", "i", "n", " ",
      "m", "y", " ", "t", "e", "x", "t", ".", "*">>

SpacingMessages == Strings({"a", " ", ".", "'"}, MaxSpacing) \cup {spacing_issues}

InitSpacing == InitWith(SpacingMessages, 1)

SpecSpacing == InitSpacing /\ [][Next]_vars

\* height measurements: feet of up to MaxFeet digits, an apostrophe, inches of
\* one or two digits, a double quote
MaxFeet == 1

Heights ==
    {feet \o <<"'">> \o inches \o <<"\"">> :
        feet \in Strings({"5", "0"}, MaxFeet) \ {<<>>},
        inches \in {<<"2">>, <<"1", "0">>}}
    \cup {<<"1", "0", "'", "1", "1", "\"">>}

\* an ordinary word, to stand where a measurement stands
OrdinaryWord == <<"W", "d">>

\* messages with a measurement between a text before and a text after it; the
\* first is TEST_CASES.height_measurement
HeightContexts ==
    {[before |-> <<"*", "S", "h", "e", " ", "w", "a", "s", " ">>,
      after  |-> <<" ", "t", "a", "l", "l", " ", "a", "n", "d", " ", "w", "o", "r", "e", " ", "a", " ",
                   "\"", "b", "e", "a", "u", "t", "i", "f", "u", "l", "\"", " ",
                   "d", "r", "e", "s", "s", "*">>],
     [before |-> <<>>, after |-> <<>>],
     [before |-> <<"H", "e", " ", "i", "s", " ">>, after |-> <<>>],
     [before |-> <<"\"", "I", " ", "a", "m", " ">>, after |-> <<"\"", " ", "h", "e", " ", "s", "a", "i", "d">>],
     [before |-> <<"a", " ", "*">>, after |-> <<"*", " ", "b">>],
     [before |-> <<>>, after |-> <<" ", "\"", "h", "i", "\"">>],
     [before |-> <<"\"", "h", "i", "\"", " ">>, after |-> <<>>],
     [before |-> <<"\"">>, after |-> <<"\"">>],
     [before |-> <<"\"", "a", " ", "*">>, after |-> <<"*", " ", "b", "\"">>],
     [before |-> <<"a", " ", "\"", "b", " ">>, after |-> <<" ", "c", "\"", " ", "d">>],
     [before |-> <<"*", "a", " ">>, after |-> <<" ", "\"", "b", "\"", " ", "c", "*">>]}

HeightMessages ==
    {c.before \o x \o c.after : c \in HeightContexts, x \in Heights \cup {OrdinaryWord}}

InitHeight == InitWith(HeightMessages, 1)

SpecHeight == InitHeight /\ [][Next]_vars

\* lines with a bold word X: "**X**", "**X** post" and "pre **X** post"
BoldLineOf(p) ==
    (IF Len(p.pre) > 0 THEN p.pre \o <<" ">> ELSE <<>>)
    \o <<"*", "*">> \o p.X \o <<"*", "*">>
    \o (IF Len(p.post) > 0 THEN <<" ">> \o p.post ELSE <<>>)

BoldLineParts ==
    {[pre |-> <<>>, X |-> <<"a">>, post |-> <<>>],
     [pre |-> <<>>, X |-> <<"B", ".">>, post |-> <<>>],
     [pre |-> <<>>, X |-> <<"a">>, post |-> <<"b">>],
     [pre |-> <<"c">>, X |-> <<"a">>, post |-> <<"b">>]}

\* the lines of TEST_CASES.single_word_emphasis
single_word_emphasis ==
    <<[pre |-> <<>>, X |-> <<"B", "o", "l", "d", ".">>, post |-> <<>>],
      [pre |-> <<>>, X |-> <<"B", "o", "l", "d">>,
       post |-> <<"t", "e", "x", "t", " ", "h", "e", "r", "e">>],
      [pre |-> <<>>, X |-> <<"A", "n", "o", "t", "h", "e", "r">>,
       post |-> <<"b", "o", "l", "d", " ", "w", "o", "r", "d">>],
      [pre |-> <<"S", "o", "m", "e">>, X |-> <<"i", "n", "l", "i", "n", "e">>,
       post |-> <<"b", "o", "l", "d">>]>>

MaxBoldLines == 2

\* one to MaxBoldLines such lines, and the test case
BoldLineSequences ==
    UNION {[1..k -> BoldLineParts] : k \in 1..MaxBoldLines} \cup {single_word_emphasis}

BoldLineMessages ==
    {Join([k \in 1..Len(ps) |-> BoldLineOf(ps[k])], <<"\n">>) : ps \in BoldLineSequences}

InitBoldLines == InitWith(BoldLineMessages, 1)

SpecBoldLines == InitBoldLines /\ [][Next]_vars

\* messages that bring a narration span with three, four or five single
\* asterisks to mergeNestedEmphasis, the span ending at the end of the text, at
\* a quote or at a newline
MergeBodies ==
    {<<"a", "*", "a">>, <<"a", "*", " ", "*", "a">>, <<"a", "*", " ", "*", " ", "*", "a">>}

MergeEndings == {<<>>, <<"\"">>, <<"\n", "a">>, <<"\n", "*">>}

MergeMessages == Concat(MergeBodies, MergeEndings)

InitMerge == InitWith(MergeMessages, 1)

SpecMerge == InitMerge /\ [][Next]_vars

\* two non-empty lines, unmarked or in italics, with one to MaxBreaks line breaks
\* between them
MaxBreaks == 3

LineBreaks(n) == [k \in 1..n |-> "\n"]

BrokenLines == {<<"a">>, <<"a", " ", "b">>, <<"*", "a", " ", "b", "*">>}

BrokenMessages ==
    {first \o LineBreaks(n) \o second :
        first \in BrokenLines, second \in BrokenLines, n \in 1..MaxBreaks}

InitBroken == InitWith(BrokenMessages, 1)

SpecBroken == InitBroken /\ [][Next]_vars

\* a list marker in the middle of a line: after a word, a quoted span, a code
\* span or a protected block, with or without a space between them
MidLineHeads ==
    {<<"x">>, Quoted(<<"h", "i">>), InlineCode(<<"c">>), ClosedThink(<<"a">>)}

MidLineMarkers == {<<"a", ".">>, <<"1", ")">>, <<"B", ">">>}

MidLineMessages ==
    {head \o gap \o marker \o <<" ", "g", "o">> :
        head \in MidLineHeads, gap \in {<<>>, <<" ">>}, marker \in MidLineMarkers}

InitMidLine == InitWith(MidLineMessages, 1)

SpecMidLine == InitMidLine /\ [][Next]_vars

\* a complete bold pair **a** with an unpaired fragment after or before it, of
\* the same word or of another one; and the pair or a fragment alone
UnpairedTails ==
    {<<>>, <<" ", "a", "*", "*">>, <<" ", "*", "*", "a">>, <<" ", "b", "*", "*">>,
     <<" ", "*", "*", "b">>, <<" ", "b", " ", "a", "*", "*">>, <<"a", "*", "*">>}

UnpairedHeads ==
    {<<>>, <<"a", "*", "*", " ">>, <<"*", "*", "a", " ">>, <<"b", "*", "*", " ">>,
     <<"*", "*", "b", " ">>}

UnpairedMessages ==
    Concat(UnpairedHeads, Concat({<<"*", "*", "a", "*", "*">>, <<"c">>}, UnpairedTails))

InitUnpaired == InitWith(UnpairedMessages, 1)

SpecUnpaired == InitUnpaired /\ [][Next]_vars

\* one or two quoted spans with asterisks inside them, at their quote marks or
\* away from them
StarredContents == {<<"a">>, <<"a", "*">>, <<"*", "a">>, <<"*", "a", "*">>}

StarredGaps == {<<" ">>, <<" ", "b", " ">>, <<" ", "*", "b", "*", " ">>}

StarredQuoteMessages ==
    {Quoted(c) : c \in StarredContents}
    \cup {<<"*">> \o Quoted(c) \o <<"*">> : c \in StarredContents}
    \cup {Quoted(c) \o gap \o Quoted(d) :
             c \in StarredContents, gap \in StarredGaps, d \in StarredContents}

InitStarredQuotes == InitWith(StarredQuoteMessages, 1)

SpecStarredQuotes == InitStarredQuotes /\ [][Next]_vars

\* messages with protected blocks and height measurements, formatted twice: the
\* second call is on the text of the first (by /format) or on what it gave
SharedMessages ==
    {Bracketed(<<"a">>), Bracketed(<<"f", "_", "k">>), Bracketed(ClosedThink(<<"a">>)),
     Bracketed(<<"a">>) \o <<" ", "b">>, ClosedThink(<<"a">>) \o <<" ", "b">>,
     <<"5", "'", "2", "\"", " ", "a">>, <<"a">>}

InitShared == InitWith(SharedMessages, 2)

SpecShared == InitShared /\ [][Next]_vars

\* messages that bring to mergeNestedEmphasis a narration span with the
\* characters @ of the clean-up's marker in it: with a third single asterisk
\* after them, with one @ on each side only, and with no asterisk at all
MarkedBodies ==
    {<<"a", "*", "@", "@", "a", "@", "@", "a">>,
     <<"a", "@", "@", "a", "@", "@", "*", "a">>,
     <<"a", "*", "@", "a", "@", " ", "a">>,
     <<"@", "@", "a", "@", "@">>,
     <<"a", "*", "a", " ", "@", "@", "a", "@", "@">>,
     <<"a", "*", " ", "@", "@", "a", "@", "@", " ", "*", "a">>}

MarkedMessages == Concat(MarkedBodies, MergeEndings)

InitMarked == InitWith(MarkedMessages, 1)

SpecMarked == InitMarked /\ [][Next]_vars

\* ---------------------------------------------------------------------
\* The claims

\* the finished calls that ran the whole pipeline
Formatted == {i \in 1..Len(calls) : calls[i].outcome = "formatted"}

\* C1: processText never throws and returns a text: every call ends by a return
\* of the try block or of its catch, and a call whose try block threw (the host
\* context lookup, the character lookup) returns exactly its input text, never
\* a partly processed one.
C1_ReturnsInputOnFailure ==
    /\ pc = "return" => /\ outcome \in {"formatted", "skipped", "caught"}
                        /\ outcome = "caught" => returned = text
    /\ \A i \in 1..Len(calls) :
          /\ calls[i].outcome \in {"formatted", "skipped", "caught"}
          /\ calls[i].outcome = "caught" => calls[i].returned = calls[i].text

\* a call on a non-empty text threw and has returned
C1_Witness ==
    \E i \in 1..Len(calls) :
        calls[i].outcome = "caught" /\ Len(calls[i].text) > 0 /\ calls[i].returned = calls[i].text

\* C2: formatting is idempotent: a call on the output of the call before it,
\* under the same settings, returns its input unchanged.
C2_Idempotent ==
    \A i \in Formatted :
        (/\ i > 1
         /\ (i - 1) \in Formatted
         /\ calls[i].processQuotes = calls[i - 1].processQuotes
         /\ calls[i].text = calls[i - 1].returned)
        => calls[i].returned = calls[i].text

\* the think blocks (closed, or unclosed to the end) and bracketed spans of a text
ProtectedSpans(message) ==
    LET spans(re) == {Matched(message, m) : m \in
                         {MatchAll(re, message, 1)[k] : k \in 1..Len(MatchAll(re, message, 1))}}
    IN spans(closedThinkRegex) \cup spans(squareBracketRegex)
       \cup {Matched(message, m) : m \in
                {Exec(unclosedThinkRegex, message, 1)} \ {NoMatch}}

\* C3: every think block and every bracketed span of the input is in the output
\* byte for byte.
C3_ProtectedContentKept ==
    \A i \in Formatted :
        \A span \in ProtectedSpans(calls[i].text) : Includes(calls[i].returned, span)

\* C4: the output contains no placeholder token, neither of a protected block
\* nor of a height measurement.
C4_NoPlaceholderLeft ==
    \A i \in Formatted :
        /\ ~Test(placeholderRegex, calls[i].returned)
        /\ ~Test(Lit(heightPlaceholderPrefix) \o <<Plus(In(Digit))>> \o Lit(<<"_", "_">>),
                 calls[i].returned)

\* one or more words of ASCII letters separated by single spaces
IsWords(c) ==
    /\ Len(c) > 0
    /\ \A k \in 1..Len(c) : c[k] \in Lower \cup Upper \cup {" "}
    /\ c[1] # " " /\ c[Len(c)] # " "
    /\ \A k \in 1..(Len(c) - 1) : ~(c[k] = " " /\ c[k + 1] = " ")

\* the message is *"c"* for a content c without quote or asterisk
IsWrappedQuote(message) ==
    /\ Len(message) >= 4
    /\ message[1] = "*" /\ message[2] = "\""
    /\ message[Len(message) - 1] = "\"" /\ message[Len(message)] = "*"
    /\ \A k \in 3..(Len(message) - 2) : message[k] \notin {"\"", "*"}

\* C5 as stated: with quote processing enabled, *"c"* gives "c" for every
\* content c that contains no quote and no asterisk.
C5_WrappedQuoteUnwrapped ==
    \A i \in Formatted :
        calls[i].processQuotes /\ IsWrappedQuote(calls[i].text)
        => calls[i].returned = Sub(calls[i].text, 2, Len(calls[i].text) - 1)

\* C5: with quote processing enabled, *"c"* gives "c" for every content c made
\* of words of ASCII letters separated by single spaces.
C5_WrappedWordsUnwrapped ==
    \A i \in Formatted :
        (/\ calls[i].processQuotes
         /\ IsWrappedQuote(calls[i].text)
         /\ IsWords(Sub(calls[i].text, 3, Len(calls[i].text) - 2)))
        => calls[i].returned = Sub(calls[i].text, 2, Len(calls[i].text) - 1)

\* *"a a"* has been formatted to "a a" with quote processing enabled
C5_Witness ==
    \E i \in Formatted :
        /\ calls[i].processQuotes
        /\ calls[i].text = <<"*">> \o Quoted(<<"a", " ", "a">>) \o <<"*">>
        /\ calls[i].returned = Quoted(<<"a", " ", "a">>)

\* the message is "q", one space, and narration without asterisk, quote,
\* backtick, bracket or newline that does not start like a list marker
IsQuoteThenNarration(message) ==
    /\ Len(message) >= 4
    /\ message[1] = "\""
    /\ LET closing == IndexOf(message, <<"\"">>, 2)
       IN /\ closing # 0
          /\ closing + 2 <= Len(message)
          /\ message[closing + 1] = " "
          /\ \A k \in (closing + 2)..Len(message) :
                message[k] \notin {"*", "\"", Backtick, "[", "]", "\n"}
          /\ ~(/\ closing + 3 <= Len(message)
               /\ message[closing + 2] \in AlNum
               /\ message[closing + 3] \in {".", ">", ")"})

\* the quoted span of such a message, and its narration
QuoteOf(message) == Sub(message, 1, IndexOf(message, <<"\"">>, 2))
NarrationOf(message) == From(message, IndexOf(message, <<"\"">>, 2) + 2)

\* C6 as stated: "q" n gives "q" *n* for every quoted span and every unmarked
\* one-line narration n.
C6_NarrationWrapped ==
    \A i \in Formatted :
        IsQuoteThenNarration(calls[i].text)
        => calls[i].returned = QuoteOf(calls[i].text) \o <<" ", "*">>
                               \o NarrationOf(calls[i].text) \o <<"*">>

\* C6: "q" n gives "q" *n* when the quote content q and the narration n are
\* both words of ASCII letters separated by single spaces.
C6_WordsNarrationWrapped ==
    \A i \in Formatted :
        (/\ IsQuoteThenNarration(calls[i].text)
         /\ IsWords(Sub(QuoteOf(calls[i].text), 2, Len(QuoteOf(calls[i].text)) - 1))
         /\ IsWords(NarrationOf(calls[i].text)))
        => calls[i].returned = QuoteOf(calls[i].text) \o <<" ", "*">>
                               \o NarrationOf(calls[i].text) \o <<"*">>

\* "Hi" she said has been formatted to "Hi" *she said*
C6_Witness ==
    \E i \in Formatted :
        /\ calls[i].text = Quoted(<<"H", "i">>) \o <<" ", "s", "h", "e", " ", "s", "a", "i", "d">>
        /\ calls[i].returned = Quoted(<<"H", "i">>)
                               \o <<" ", "*", "s", "h", "e", " ", "s", "a", "i", "d", "*">>

\* C7 as stated: *before *w* after* gives *before **w** after* for every word w
\* of word characters, apostrophes and hyphens.
C7_SingleWordBold ==
    \A i \in Formatted : \A c \in NestedContexts : \A w \in NestedWords :
        calls[i].text = NestedWord(c.before, w, c.after)
        => calls[i].returned = NestedBold(c.before, w, c.after)

\* C7: *before *w* after* gives *before **w** after* for every word w of ASCII
\* letters, digits, apostrophes and hyphens.
C7_PlainWordBold ==
    \A i \in Formatted : \A c \in NestedContexts : \A w \in NestedWords :
        (/\ calls[i].text = NestedWord(c.before, w, c.after)
         /\ \A k \in 1..Len(w) : w[k] \in Lower \cup Upper \cup Digit \cup {"'", "-"})
        => calls[i].returned = NestedBold(c.before, w, c.after)

\* *The cat was *very* cute* has been formatted to *The cat was **very** cute*
C7_Witness ==
    \E i \in Formatted : \E c \in NestedContexts :
        /\ Len(c.before) > 1
        /\ calls[i].text = NestedWord(c.before, <<"v", "e", "r", "y">>, c.after)
        /\ calls[i].returned = NestedBold(c.before, <<"v", "e", "r", "y">>, c.after)

\* C8: a one-line message that starts with a list marker (an alphanumeric and
\* then one of . > ) ) is returned unchanged.
C8_ListLineUnchanged ==
    \A i \in Formatted :
        (/\ Len(calls[i].text) >= 2
         /\ calls[i].text[1] \in AlNum
         /\ calls[i].text[2] \in {".", ">", ")"}
         /\ ~Includes(calls[i].text, <<"\n">>))
        => calls[i].returned = calls[i].text

\* C9: the output holds no run of four or more asterisks.
C9_NoQuadrupleAsterisks ==
    \A i \in Formatted : ~Includes(calls[i].returned, <<"*", "*", "*", "*">>)

\* C10 as stated: a message without asterisk and quote gives its trimmed text
\* between one pair of asterisks.
C10_PlainWrappedOnce ==
    \A i \in Formatted :
        (\A k \in 1..Len(calls[i].text) : calls[i].text[k] \notin {"*", "\""})
        => calls[i].returned = <<"*">> \o Trim(calls[i].text) \o <<"*">>

\* C10: a message that is, once trimmed, words of ASCII letters separated by
\* single spaces gives its trimmed text between one pair of asterisks.
C10_WordsWrappedOnce ==
    \A i \in Formatted :
        IsWords(Trim(calls[i].text))
        => calls[i].returned = <<"*">> \o Trim(calls[i].text) \o <<"*">>

\* " a a" has been formatted to *a a*
C10_Witness ==
    \E i \in Formatted :
        /\ calls[i].text = <<" ", "a", " ", "a">>
        /\ calls[i].returned = <<"*", "a", " ", "a", "*">>

\* the number of quote characters of a text
QuoteCount(s) == Cardinality({k \in 1..Len(s) : s[k] = "\""})

\* C11: the output of a formatting call holds an even number of quote
\* characters (the messages here have no protected block and no height).
C11_QuotesPaired ==
    \A i \in Formatted : QuoteCount(calls[i].returned) % 2 = 0

\* position k starts a run of asterisks in s
IsRunStart(s, k) == s[k] = "*" /\ (k = 1 \/ s[k - 1] # "*")

\* the length of the run of asterisks that starts at k
AsteriskRun(s, k) ==
    CHOOSE n \in 1..(Len(s) - k + 1) :
        /\ \A j \in 0..(n - 1) : s[k + j] = "*"
        /\ (k + n > Len(s) \/ s[k + n] # "*")

\* all asterisks of s are complete bold pairs: runs of two, in even number
OnlyBoldPairs(s) ==
    /\ \A k \in 1..Len(s) : IsRunStart(s, k) => AsteriskRun(s, k) = 2
    /\ Cardinality({k \in 1..Len(s) : IsRunStart(s, k)}) % 2 = 0

\* s is one narration segment in one level of italics
OneLevelItalic(s) ==
    /\ Len(s) >= 3
    /\ s[1] = "*" /\ s[Len(s)] = "*"
    /\ OnlyBoldPairs(Sub(s, 2, Len(s) - 1))

\* C12: the output for a one-line message of narration only (no quote, code
\* span, list marker or protected block) is empty or one narration segment
\* between one pair of asterisks with only complete bold pairs inside.
C12_NarrationBalanced ==
    \A i \in Formatted :
        Len(calls[i].returned) > 0 => OneLevelItalic(calls[i].returned)

\* C13: a backtick code span (inline, fenced, or running to the end of the
\* text) is found in the output with its content unchanged.
C13_CodeSpanKept ==
    \A i \in Formatted : \A c \in CodeContents :
        calls[i].text \in {InlineCode(c), FencedCode(c), OpenCode(c)}
        => Includes(calls[i].returned, calls[i].text)

\* C14: a /format command returns the advisory string, without a call of
\* processText, exactly when its argument is missing or empty; otherwise it
\* returns what its call of processText returned for that argument.
C14_CommandAdvisory ==
    \A k \in 1..Len(commands) :
        /\ commands[k].ran <=> (commands[k].arg.given /\ Len(commands[k].arg.text) > 0)
        /\ ~commands[k].ran => commands[k].returned = formatCommandAdvisory
        /\ commands[k].ran =>
              /\ Len(calls) > 0
              /\ calls[Len(calls)].text = commands[k].arg.text
              /\ calls[Len(calls)].returned = commands[k].returned

\* a command has returned the formatted text of a non-empty argument
C14_Witness ==
    \E k \in 1..Len(commands) :
        /\ commands[k].ran
        /\ Len(commands[k].arg.text) > 0
        /\ calls[Len(calls)].outcome = "formatted"
        /\ commands[k].returned # commands[k].arg.text
        /\ commands[k].returned # formatCommandAdvisory

\* C15 as stated: with processQuotes false, neither the asterisk stripping nor
\* the folding of duplicated quote characters changes the text.
C15_QuoteStagesSkipped ==
    [][(/\ pc \in {"processQuotes", "cleanupConsecutiveQuotes"}
        /\ ~extensionSettings.processQuotes)
       => result' = result]_vars

\* C15: with processQuotes false, the asterisk-stripping stage leaves the text
\* as it is.
C15_StrippingSkipped ==
    [][(pc = "processQuotes" /\ ~extensionSettings.processQuotes) => result' = result]_vars

\* with processQuotes false, "a"* has passed stage 1 with its asterisk
C15_Witness ==
    /\ pc = "cleanupConsecutiveQuotes"
    /\ ~extensionSettings.processQuotes
    /\ result = <<"\"", "a", "\"", "*">>
    /\ processQuotes(result) # result

\* C16: while a call of processText runs, the extension's settings object is
\* not changed and no save of the settings is requested.
C16_SettingsReadOnly ==
    [][pc # "idle" => /\ extensionSettings' = extensionSettings
                      /\ saveRequested' = saveRequested]_vars

\* a word of ASCII letters, digits, apostrophes and hyphens
IsPlainWord(w) ==
    Len(w) > 0 /\ \A k \in 1..Len(w) : w[k] \in Lower \cup Upper \cup Digit \cup {"'", "-"}

C18_ItalicQuoteUnchanged ==
    \A i \in Formatted :
        calls[i].text \in ItalicQuoteMessages => calls[i].returned = calls[i].text

\* C18: *before "q" after* is returned unchanged when before, q and after are
\* words of ASCII letters separated by single spaces, with one space on either
\* side of the quoted span.
C18_ItalicWordsQuoteUnchanged ==
    \A i \in Formatted : \A m \in ItalicQuoteParts :
        (/\ calls[i].text = ItalicWithQuote(m.before, m.q, m.after)
         /\ Len(m.before) > 1 /\ m.before[Len(m.before)] = " "
         /\ IsWords(Sub(m.before, 1, Len(m.before) - 1))
         /\ IsWords(m.q)
         /\ Len(m.after) > 1 /\ m.after[1] = " "
         /\ IsWords(From(m.after, 2)))
        => calls[i].returned = calls[i].text

\* *The man needed no "help" to fetch his gun* has been returned unchanged
C18_Witness ==
    \E i \in Formatted :
        /\ Len(calls[i].text) > 40
        /\ calls[i].text \in ItalicQuoteMessages
        /\ Includes(calls[i].text, Quoted(<<"h", "e", "l", "p">>))
        /\ calls[i].returned = calls[i].text

\* the positions of s that are not a space before a punctuation mark or before
\* an apostrophe contraction
KeptPositions(s) ==
    {k \in 1..Len(s) :
        ~(/\ s[k] = " "
          /\ k < Len(s)
          /\ \/ s[k + 1] \in {".", ",", "!", "?", ";", ":"}
             \/ (s[k + 1] = "'" /\ k + 2 <= Len(s) /\ s[k + 2] \in Lower \cup Upper))}

\* s without the positions that are not kept
Keeping(s, kept) ==
    [i \in 1..Cardinality(kept) |->
        s[CHOOSE k \in kept : Cardinality({j \in kept : j <= k}) = i]]

\* s with every run of spaces collapsed to one space and the spaces before a
\* punctuation mark or an apostrophe contraction removed
SpacesTidied(s) ==
    LET tidied(c) == Keeping(c, KeptPositions(c))
    IN tidied(ReplaceAllStr(s, <<Rep(Ch(" "), 2, -1)>>, <<" ">>))

\* C19: a one-line message without asterisk and quote that is not blank gives
\* its trimmed text with the spaces tidied, between one pair of asterisks; in
\* particular the input of TEST_CASES.spacing_issues gives its expected text.
C19_SpacesTidied ==
    \A i \in Formatted :
        /\ Len(Trim(calls[i].text)) > 0
              => calls[i].returned = <<"*">> \o SpacesTidied(Trim(calls[i].text)) \o <<"*">>
        /\ calls[i].text = spacing_issues => calls[i].returned = spacing_expected

\* what a message of HeightContexts gives when an ordinary word x stands
\* between its two texts
HeightGives ==
    {[before |-> <<"*", "S", "h", "e", " ", "w", "a", "s", " ">>,
      after  |-> <<" ", "t", "a", "l", "l", " ", "a", "n", "d", " ", "w", "o", "r", "e", " ", "a", " ",
                   "\"", "b", "e", "a", "u", "t", "i", "f", "u", "l", "\"", " ",
                   "d", "r", "e", "s", "s", "*">>,
      givesBefore |-> <<"*", "S", "h", "e", " ", "w", "a", "s", " ">>,
      givesAfter  |-> <<" ", "t", "a", "l", "l", " ", "a", "n", "d", " ", "w", "o", "r", "e", " ", "a", " ",
                        "\"", "b", "e", "a", "u", "t", "i", "f", "u", "l", "\"", " ",
                        "d", "r", "e", "s", "s", "*">>],
     [before |-> <<>>, after |-> <<>>,
      givesBefore |-> <<"*">>, givesAfter |-> <<"*">>],
     [before |-> <<"H", "e", " ", "i", "s", " ">>, after |-> <<>>,
      givesBefore |-> <<"*", "H", "e", " ", "i", "s", " ">>, givesAfter |-> <<"*">>],
     [before |-> <<"\"", "I", " ", "a", "m", " ">>,
      after |-> <<"\"", " ", "h", "e", " ", "s", "a", "i", "d">>,
      givesBefore |-> <<"\"", "I", " ", "a", "m", " ">>,
      givesAfter |-> <<"\"", " ", "*", "h", "e", " ", "s", "a", "i", "d", "*">>],
     [before |-> <<"a", " ", "*">>, after |-> <<"*", " ", "b">>,
      givesBefore |-> <<"*", "a", " ", "*", "*">>, givesAfter |-> <<"*", "*", " ", "b", "*">>],
     [before |-> <<>>, after |-> <<" ", "\"", "h", "i", "\"">>,
      givesBefore |-> <<"*">>, givesAfter |-> <<"*", " ", "\"", "h", "i", "\"">>],
     [before |-> <<"\"", "h", "i", "\"", " ">>, after |-> <<>>,
      givesBefore |-> <<"\"", "h", "i", "\"", " ", "*">>, givesAfter |-> <<"*">>],
     [before |-> <<"\"">>, after |-> <<"\"">>,
      givesBefore |-> <<"\"">>, givesAfter |-> <<"\"">>],
     [before |-> <<"\"", "a", " ", "*">>, after |-> <<"*", " ", "b", "\"">>,
      givesBefore |-> <<"\"", "a", " ", "*", "*">>, givesAfter |-> <<"*", "*", " ", "b", "\"">>],
     [before |-> <<"a", " ", "\"", "b", " ">>, after |-> <<" ", "c", "\"", " ", "d">>,
      givesBefore |-> <<"*", "a", "*", " ", "\"", "b", " ">>,
      givesAfter |-> <<" ", "c", "\"", " ", "*", "d", "*">>],
     [before |-> <<"*", "a", " ">>, after |-> <<" ", "\"", "b", "\"", " ", "c", "*">>,
      givesBefore |-> <<"*", "a", " ">>, givesAfter |-> <<" ", "\"", "b", "\"", " ", "c", "*">>]}

\* C20: a message with a height measurement, alone or beside a real quoted
\* span, gives what the same message gives with an ordinary word in the place
\* of the measurement, the measurement standing unchanged where the word would:
\* its double quote opens and closes no quote.
C20_HeightAsWord ==
    \A i \in Formatted : \A g \in HeightGives : \A x \in Heights \cup {OrdinaryWord} :
        calls[i].text = g.before \o x \o g.after
            => calls[i].returned = g.givesBefore \o x \o g.givesAfter

height_measurement ==
    <<"*", "S", "h", "e", " ", "w", "a", "s", " ", "5", "'", "1", "0", "\"", " ",
      "t", "a", "l", "l", " ", "a", "n", "d", " ", "w", "o", "r", "e", " ", "a", " ",
      "\"", "b", "e", "a", "u", "t", "i", "f", "u", "l", "\"", " ", "d", "r", "e", "s", "s", "*">>

\* TEST_CASES.height_measurement was formatted and came back unchanged
C20_Witness ==
    \E i \in Formatted :
        /\ calls[i].text = height_measurement
        /\ calls[i].returned = height_measurement
        /\ \E g \in HeightGives : \E x \in Heights :
               height_measurement = g.before \o x \o g.after

\* the line with the bold word X italicized as a whole
ItalicLineOf(p) ==
    IF Len(p.pre) = 0 /\ Len(p.post) = 0
    THEN <<"*", "*", "*">> \o p.X \o <<"*", "*", "*">>
    ELSE IF Len(p.pre) = 0
    THEN <<"*", "*", "*">> \o p.X \o <<"*", "*", " ">> \o p.post \o <<"*">>
    ELSE <<"*">> \o p.pre \o <<" ", "*", "*">> \o p.X \o <<"*", "*", " ">> \o p.post \o <<"*">>

\* C21: the lines of a message that contain a bold word are italicized as a
\* whole, each line for itself: "**X**" gives "***X***", "**X** post" gives
\* "***X** post*" and "pre **X** post" gives "*pre **X** post*"; and the
\* line-start fix-up leaves a line that starts with a single asterisk as it is.
C21_BoldLinesItalicized ==
    /\ \A i \in Formatted : \A ps \in BoldLineSequences :
          calls[i].text = Join([k \in 1..Len(ps) |-> BoldLineOf(ps[k])], <<"\n">>)
          => calls[i].returned = Join([k \in 1..Len(ps) |-> ItalicLineOf(ps[k])], <<"\n">>)
    /\ pc = "fixSingleWordEmphasisAtLineStart"
          => LET kept(lines, fixed) ==
                     /\ Len(fixed) = Len(lines)
                     /\ \A k \in 1..Len(lines) :
                           (/\ StartsWith(Trim(lines[k]), <<"*">>)
                            /\ ~StartsWith(Trim(lines[k]), <<"*", "*">>))
                           => fixed[k] = lines[k]
             IN kept(SplitLines(result), SplitLines(fixSingleWordEmphasisAtLineStart(result)))

\* TEST_CASES.single_word_emphasis was formatted and gave its expected text, and
\* so did a message whose second line started with a single asterisk at the fix-up
C21_Witness ==
    \E i \in Formatted :
        /\ calls[i].text = Join([k \in 1..4 |-> BoldLineOf(single_word_emphasis[k])], <<"\n">>)
        /\ calls[i].returned = Join([k \in 1..4 |-> ItalicLineOf(single_word_emphasis[k])], <<"\n">>)
        /\ Includes(calls[i].returned, <<"\n", "*", "S", "o", "m", "e">>)

\* the n-th smallest element of a set of numbers
NthOf(S, n) == CHOOSE k \in S : Cardinality({j \in S : j <= k}) = n

\* the positions of the quotes and newlines of s, the boundaries of its spans
SpanBoundaries(s) == {k \in 1..Len(s) : s[k] \in {"\"", "\n"}}

\* the n-th span of s: the text between its boundaries n - 1 and n
SpanOf(s, n) ==
    LET between(B) ==
            Sub(s, IF n = 1 THEN 1 ELSE NthOf(B, n - 1) + 1,
                   IF n = Cardinality(B) + 1 THEN Len(s) ELSE NthOf(B, n) - 1)
    IN between(SpanBoundaries(s))

\* the positions of the single asterisks of s as mergeNestedEmphasis counts
\* them, taking asterisks two by two from the left: the last one of every run
\* of odd length
SingleAsterisks(s) ==
    {k \in 1..Len(s) :
        /\ s[k] = "*"
        /\ (k = Len(s) \/ s[k + 1] # "*")
        /\ \E j \in 1..k : IsRunStart(s, j) /\ j + AsteriskRun(s, j) - 1 = k
                           /\ AsteriskRun(s, j) % 2 = 1}

\* s without its single asterisks
WithoutSingles(s) == Keeping(s, (1..Len(s)) \ SingleAsterisks(s))

\* C22: mergeNestedEmphasis keeps the quotes and newlines of its text, and to a
\* span between them that holds three or more single asterisks it gives exactly
\* two single asterisks, the last one at the end of the span, and keeps all the
\* rest of the span, its bold pairs among it.
C22_MergedSpanTwoSingles ==
    pc = "mergeNestedEmphasis" =>
        LET merged(out) ==
                /\ Cardinality(SpanBoundaries(out)) = Cardinality(SpanBoundaries(result))
                /\ \A n \in 1..(Cardinality(SpanBoundaries(result)) + 1) :
                      Cardinality(SingleAsterisks(SpanOf(result, n))) >= 3
                      => /\ Cardinality(SingleAsterisks(SpanOf(out, n))) = 2
                         /\ Len(SpanOf(out, n)) \in SingleAsterisks(SpanOf(out, n))
                         /\ WithoutSingles(SpanOf(out, n)) = WithoutSingles(SpanOf(result, n))
        IN merged(mergeNestedEmphasis(result))

\* the positions of the line breaks of s
LineBreakPositions(s) == {k \in 1..Len(s) : s[k] = "\n"}

\* s is two non-empty lines with exactly n line breaks between them
TwoLinesBrokenBy(s, n) ==
    LET together(B) ==
            /\ Cardinality(B) = n
            /\ \A k \in B : k > 1 /\ k < Len(s)
            /\ \A j \in B : \A k \in B : k - j < n
    IN together(LineBreakPositions(s))

\* C23: of two non-empty lines, unmarked narration or already in italics, with
\* one line break between them the output keeps one line break between two
\* lines, and with two or more line breaks between them it keeps exactly two.
C23_LineBreaksKept ==
    \A i \in Formatted : \A n \in 1..MaxBreaks :
        TwoLinesBrokenBy(calls[i].text, n)
        => TwoLinesBrokenBy(calls[i].returned, IF n = 1 THEN 1 ELSE 2)

\* section k of the sections is a list-marker segment: a code section that
\* begins with an alphanumeric and one of . > )
IsListMarkerSection(sections, k) ==
    /\ sections[k].type = "code"
    /\ Len(sections[k].raw) >= 2
    /\ sections[k].raw[1] \in AlNum
    /\ sections[k].raw[2] \in {".", ">", ")"}

\* C24: splitBetweenQuotes makes a list-marker segment only at the start of a
\* line: the segment is the first section or the section before it ends with a
\* newline; a marker in the middle of a line stays in a narrative section.
C24_ListMarkerAtLineStart ==
    pc = "processNarrative" =>
        LET atLineStart(sections) ==
                \A k \in 1..Len(sections) :
                    IsListMarkerSection(sections, k)
                    => k = 1 \/ EndsWith(sections[k - 1].raw, <<"\n">>)
        IN atLineStart(splitBetweenQuotes(result))

\* the complete bold pairs of s, /\*\*([\w'-]+[?!./,:\\]?)\*\*/g, in their order
CompletePairs(s) == MatchedTexts(s, <<Ch("*"), Ch("*")>> \o Word \o <<Ch("*"), Ch("*")>>)

\* the unpaired fragments of s: a double asterisk with word content on one side
\* only, in what is left of s without its complete pairs
UnpairedFragments(s) ==
    LET fragments(working) ==
            MatchedTexts(working, <<Ch("*"), Ch("*")>> \o WordOrQuote)
            \o MatchedTexts(working, WordOrQuote \o <<Ch("*"), Ch("*")>>)
    IN fragments(ReplaceAllStr(s, <<Ch("*"), Ch("*")>> \o Word \o <<Ch("*"), Ch("*")>>, <<>>))

\* C25: cleanupUnpairedDoubleAsterisks keeps every complete bold pair of its
\* text as it is and in its place among the others, and leaves no double
\* asterisk that has word content on one side only, also when the word of a
\* complete pair occurs in an unpaired fragment as well.
C25_PairsKeptFragmentsRemoved ==
    pc = "cleanupUnpairedDoubleAsterisks" =>
        LET cleaned(out) ==
                /\ CompletePairs(out) = CompletePairs(result)
                /\ UnpairedFragments(out) = <<>>
        IN cleaned(cleanupUnpairedDoubleAsterisks(result))

\* C26: restoreProtectedBlocks undoes extractProtectedBlocks: restoring what
\* the extraction of a text gave, unmodified, yields the text again, whatever
\* the protected content holds.
C26_RestoreInvertsExtract ==
    pc = "extractProtectedBlocks" =>
        LET restored(extracted) ==
                restoreProtectedBlocks(extracted.text, extracted.protectedBlocks)
        IN restored(extractProtectedBlocks(result)) = result

\* the positions of the quote marks of s
QuotePositions(s) == {k \in 1..Len(s) : s[k] = "\""}

\* the n-th quoted span of s, from its opening to its closing quote mark
QuotedSpanOf(s, n) ==
    LET span(Q) == Sub(s, NthOf(Q, 2 * n - 1), NthOf(Q, 2 * n))
    IN span(QuotePositions(s))

\* C27: processQuotes keeps the quote marks of its text and, for each quoted
\* span, the characters between its two quote marks, the asterisks among them:
\* it removes no asterisk that lies inside a quoted span.
C27_QuotedContentKept ==
    (pc = "processQuotes" /\ extensionSettings.processQuotes) =>
        LET kept(out) ==
                /\ Cardinality(QuotePositions(out)) = Cardinality(QuotePositions(result))
                /\ \A n \in 1..(Cardinality(QuotePositions(result)) \div 2) :
                      QuotedSpanOf(out, n) = QuotedSpanOf(result, n)
        IN kept(processQuotes(result))

\* stage k of processText between the protection of the height measurements and
\* their restoration, on a text t
stageOf(k, t, enabled) ==
    CASE k = 1 -> IF enabled THEN processQuotes(t) ELSE t
      [] k = 2 -> cleanupConsecutiveQuotes(t)
      [] k = 3 -> processNestedEmphasis(t)
      [] k = 4 -> cleanupQuadrupleAsterisks(t)
      [] k = 5 -> cleanupUnpairedDoubleAsterisks(t)
      [] k = 6 -> cleanupLoneAsterisks(t)
      [] k = 7 -> cleanupAsteriskSpacing(t)
      [] k = 8 -> cleanupQuoteSpacing(t)
      [] k = 9 -> processNarrative(t)
      [] k = 10 -> cleanupExcessNewlines(t)
      [] k = 11 -> cleanupExcessSpaces(t)
      [] k = 12 -> mergeNestedEmphasis(t)
      [] OTHER -> fixSingleWordEmphasisAtLineStart(t)

\* the stages from stage k on, one after the other, each on the value of the
\* one before
RECURSIVE stagesFrom(_, _, _)
stagesFrom(k, t, enabled) ==
    IF Len(t) >= 0 /\ k <= 13 THEN stagesFrom(k + 1, stageOf(k, t, enabled), enabled) ELSE t

heightsRestoredOf(protected, enabled) ==
    IF Len(protected.text) >= 0
    THEN restoreHeightMeasurements(stagesFrom(1, protected.text, enabled),
                                   protected.heightMeasurements)
    ELSE <<>>

blocksRestoredOf(extracted, enabled) ==
    IF Len(extracted.text) >= 0
    THEN restoreProtectedBlocks(
             heightsRestoredOf(protectHeightMeasurements(normalizeSmartCharacters(extracted.text)),
                               enabled),
             extracted.protectedBlocks)
    ELSE <<>>

\* what the try block of processText computes for an input and a setting on a
\* processor that has formatted nothing before
processTextOf(input, enabled) ==
    blocksRestoredOf(extractProtectedBlocks(uncensorText(input)), enabled)

\* C28: what a formatting call returns depends on its input and the setting
\* only: a call that ran the pipeline, whatever was formatted before it, returns
\* what a processor that has formatted nothing returns; and a call starts with
\* no mapping and no buffer left from the call before.
C28_CallsIndependent ==
    /\ (pc = "return" /\ outcome = "formatted")
          => returned = processTextOf(text, extensionSettings.processQuotes)
    /\ pc = "getContext" =>
          result = <<>> /\ protectedBlocks = <<>> /\ heightMeasurements = <<>>

\* a second call returns from the pipeline after a first one that formatted
\* another text with a protected block
C28_Witness ==
    /\ pc = "return" /\ outcome = "formatted"
    /\ Len(calls) = 1 /\ 1 \in Formatted
    /\ calls[1].text # text
    /\ Len(extractProtectedBlocks(calls[1].text).protectedBlocks) > 0
    /\ Len(extractProtectedBlocks(text).protectedBlocks) > 0

\* s without its asterisks
WithoutAsterisks(s) == SelectSeq(s, LAMBDA c : c # "*")

\* C29: mergeNestedEmphasis only deletes or adds asterisks: its output without
\* its asterisks is its text without its asterisks, so that every other
\* character, the character @ among them, is kept in its place.
C29_OnlyAsterisksChange ==
    pc = "mergeNestedEmphasis" =>
        LET kept(out) == WithoutAsterisks(out) = WithoutAsterisks(result)
        IN kept(mergeNestedEmphasis(result))

\* context.characters[context.characterId] exists
HasActiveCharacter == characterId \in DOMAIN characters

\* context.characters[context.characterId].tags.includes("Assistant")
IsAssistant == HasActiveCharacter /\ "Assistant" \in characters[characterId].tags

\* the positions of processText at which a formatting step is about to run
StagePositions ==
    {"uncensorText", "extractProtectedBlocks", "normalizeSmartCharacters",
     "protectHeightMeasurements", "processQuotes", "cleanupConsecutiveQuotes",
     "processNestedEmphasis", "cleanupQuadrupleAsterisks",
     "cleanupUnpairedDoubleAsterisks", "cleanupLoneAsterisks",
     "cleanupAsteriskSpacing", "cleanupQuoteSpacing", "processNarrative",
     "cleanupExcessNewlines", "cleanupExcessSpaces", "mergeNestedEmphasis",
     "fixSingleWordEmphasisAtLineStart", "restoreHeightMeasurements",
     "restoreProtectedBlocks"}

\* for an Assistant character the call reaches no formatting step and returns
\* its input, from the check or, when the host gave no context, from the catch
AssistantSkipped ==
    /\ IsAssistant => pc \notin StagePositions
    /\ (pc = "return" /\ IsAssistant) => outcome # "formatted" /\ returned = text

\* C30 as stated: for an Assistant character processText returns its input and
\* runs no stage; for another active character, once the host has given its
\* context, it returns what all the stages, the stripping of asterisks around
\* quotes among them, make of the text.
C30_AssistantSkippedAllStagesElse ==
    /\ AssistantSkipped
    /\ (pc = "return" /\ outcome # "caught" /\ HasActiveCharacter /\ ~IsAssistant)
          => outcome = "formatted" /\ returned = processTextOf(text, TRUE)

\* C30: for an Assistant character processText returns its input and runs no
\* stage; for another active character, once the host has given its context, it
\* returns what the stages make of the text, stage 1 being run only when the
\* setting processQuotes is on.
C30_AssistantSkippedStagesElse ==
    /\ AssistantSkipped
    /\ (pc = "return" /\ outcome # "caught" /\ HasActiveCharacter /\ ~IsAssistant)
          => outcome = "formatted"
             /\ returned = processTextOf(text, extensionSettings.processQuotes)

\* the call for an Assistant character has returned, with the setting on, a
\* text whose asterisks around a quote stage 1 would have stripped
C30_Witness ==
    /\ pc = "return" /\ IsAssistant
    /\ outcome = "skipped" /\ returned = text
    /\ extensionSettings.processQuotes
    /\ processQuotes(text) # text
====
